---------------------------- MODULE Spec2Model ----------------------------
(***************************************************************************)
(* Record filtering utilities of lincs_processing (utils.py, two copies:   *)
(* src/utils.py, whose functions take (dataset_dir, ..., data=None), and   *)
(* src/src/utils.py, whose functions take (data, ...)).                    *)
(*                                                                         *)
(* A collection is a Python list of [metadata tuple, vector] records.  A   *)
(* caller holds a collection in memory (train), calls one function on it   *)
(* and gets back a collection or an exception.  Each action below is one   *)
(* whole call; the definitions suffixed _root model the copy in            *)
(* src/utils.py, the others the copy in src/src/utils.py.  Besides the     *)
(* result of the call the state records what the call printed, which files *)
(* it opened, and which object each of the caller's names refers to        *)
(* afterwards.                                                             *)
(*                                                                         *)
(* Modelled next to them: the call of the unit test (tests/test_utils.py), *)
(* the command-line script filtering.py, and drug_pert_retrieval of        *)
(* drug_info.py (two copies, as utils.py).                                 *)
(***************************************************************************)
EXTENDS Integers, Sequences, FiniteSets, TLC

(***************************************************************************)
(* Bounds of the model.                                                    *)
(***************************************************************************)
MaxLen == 4     \* longest collection supplied by the caller
MaxQ == 2       \* longest query list
MaxTuple == 1   \* longest tuple a caller passes where a list is expected
MaxRows == 3    \* most rows of a perturbation table

(***************************************************************************)
(* Python values.  A value carries its type; a string is its sequence of   *)
(* characters, a number its integer value (floats of the model are whole), *)
(* and a "list" is the one-element list [str] stored in the tag fields.    *)
(***************************************************************************)
PyStr(cs) == [t |-> "str", s |-> cs, n |-> 0]
PyInt(x) == [t |-> "int", s |-> <<>>, n |-> x]
PyFloat(x) == [t |-> "float", s |-> <<>>, n |-> x]
PyList1(cs) == [t |-> "list", s |-> cs, n |-> 0]
PyNone == [t |-> "NoneType", s |-> <<>>, n |-> 0]

\* mutant: values of different types are never equal
PyEq_sametype(a, b) == a.t = b.t /\ a.n = b.n /\ a.s = b.s

\* a == b of Python: numbers compare by value across int and float, a
\* string equals only a string, a list only a list (element-wise)
PyEq(a, b) ==
    IF a.t \in {"int", "float"} /\ b.t \in {"int", "float"}
    THEN a.n = b.n
    ELSE a.t = b.t /\ a.s = b.s

\* x in lst
PyIn(x, lst) == \E i \in DOMAIN lst : PyEq(x, lst[i])

\* mutant: the slice takes the element at end too
PySlice_inclusive(lst, start, end) ==
    LET len == Len(lst)
        lo == IF start < 0 THEN (IF start + len < 0 THEN 0 ELSE start + len)
              ELSE (IF start > len THEN len ELSE start)
        e == end + 1
        hi == IF e < 0 THEN (IF e + len < 0 THEN 0 ELSE e + len)
              ELSE (IF e > len THEN len ELSE e)
    IN  IF lo < hi THEN SubSeq(lst, lo + 1, hi) ELSE <<>>

\* lst[start:end] of Python, negative indices counted from the end
SliceIndex(i, len) ==
    IF i < 0 THEN (IF i + len < 0 THEN 0 ELSE i + len)
    ELSE (IF i > len THEN len ELSE i)

PySlice(lst, start, end) ==
    LET lo == SliceIndex(start, Len(lst))
        hi == SliceIndex(end, Len(lst))
    IN  IF lo < hi THEN SubSeq(lst, lo + 1, hi) ELSE <<>>

(***************************************************************************)
(* The records the collections are drawn from.  line[0] is the metadata    *)
(* tuple (cell_line, drug, drug_type, dose, dose_type, time, time_type,    *)
(* touchstone, clinical phase, moa, target), line[1] the expression vector.*)
(***************************************************************************)
MCF7 == PyStr(<<"M", "C", "F", "7">>)
HL60 == PyStr(<<"H", "L", "6", "0">>)
A549 == PyStr(<<"A", "5", "4", "9">>)
K562 == PyStr(<<"K", "5", "6", "2">>)
CpdX == PyStr(<<"X">>)
CpdY == PyStr(<<"Y">>)
CpdZ == PyStr(<<"Z">>)
TrtCp == PyStr(<<"t", "r", "t", "_", "c", "p">>)
Um == PyStr(<<"u", "m">>)
Hour == PyStr(<<"h">>)

Line(cell, drug, dose, time, touch, phase, moa, target, vec) ==
    [meta |-> <<cell, drug, TrtCp, dose, Um, time, Hour,
                touch, PyList1(phase), PyList1(moa), PyList1(target)>>,
     vec |-> vec]

Pool ==
    { Line(MCF7, CpdX, PyFloat(1), PyInt(6), PyInt(1),
           <<"L">>, <<"A", "|", "B", "|", "C">>, <<"T">>, <<1, 2>>),
      Line(HL60, CpdY, PyFloat(2), PyInt(6), PyInt(0),
           <<"P">>, <<"D">>, <<"T", "|", "U">>, <<3, 4>>),
      Line(A549, CpdX, PyFloat(3), PyInt(24), PyInt(1),
           <<>>, <<>>, <<>>, <<5, 6, 7>>) }

RECURSIVE SeqsUpTo(_, _)
SeqsUpTo(S, k) ==
    IF k = 0 THEN {<<>>}
    ELSE LET shorter == SeqsUpTo(S, k - 1)
         IN  shorter \cup {Append(q, x) : q \in {r \in shorter : Len(r) = k - 1}, x \in S}

Collections == SeqsUpTo(Pool, MaxLen)

\* line[0][k]
Field(line, k) == line.meta[k + 1]

(***************************************************************************)
(* The data argument and the file system.  A caller passes its collection  *)
(* as a list, or passes something else: None (the default of the functions *)
(* that take dataset_dir), or a container that is not a list, such as a    *)
(* tuple of the records.  A pickled collection is stored at the default    *)
(* path of the scripts, and nothing at any other path.                     *)
(***************************************************************************)
DataArg(kind, items) == [kind |-> kind, items |-> items]

ListData(items) == DataArg("list", items)

\* 'Data/level3_trt_cp_landmark.pkl', and the placeholder path of the tests
LandmarkPkl ==
    PyStr(<<"D", "a", "t", "a", "/", "l", "e", "v", "e", "l", "3", "_", "t", "r", "t",
            "_", "c", "p", "_", "l", "a", "n", "d", "m", "a", "r", "k", ".", "p", "k", "l">>)

Dummy == PyStr(<<"d", "u", "m", "m", "y">>)

\* "data/sample.pkl", where the tests keep a collection
SamplePkl ==
    PyStr(<<"d", "a", "t", "a", "/", "s", "a", "m", "p", "l", "e", ".", "p", "k", "l">>)

Stored ==
    << Line(K562, CpdZ, PyFloat(2), PyInt(48), PyInt(0),
            <<"P">>, <<"D">>, <<"U">>, <<8, 9>>) >>

Disk == (LandmarkPkl :> Stored)

\* what the loading block yields: the outcome, the list bound to train and
\* the paths passed to open()
Loaded(outcome, train, opened) ==
    [outcome |-> outcome, train |-> train, opened |-> opened]

\* with open(path, "rb") as f: train = pickle.load(f)
open_load(path) ==
    IF path \in DOMAIN Disk THEN Loaded("ok", Disk[path], <<path>>)
    ELSE Loaded("FileNotFoundError", <<>>, <<path>>)

\* src/src/utils.py: assert isinstance(data, (str, list)); a list is bound
\* to train as it is (a path string is not among the data arguments of the
\* model)
load(data) ==
    IF data.kind # "list" THEN Loaded("AssertionError", <<>>, <<>>)
    ELSE Loaded("ok", data.items, <<>>)

\* mutant: the file at dataset_dir is read whenever it exists
load_root_preferfile(dataset_dir, data) ==
    IF data.kind = "None" \/ dataset_dir \in DOMAIN Disk THEN open_load(dataset_dir)
    ELSE IF data.kind # "list" THEN Loaded("AssertionError", <<>>, <<>>)
    ELSE Loaded("ok", data.items, <<>>)

\* src/utils.py and parse_list_v2: if data is None the file at dataset_dir
\* is read, else data must be a list and is bound to train
load_root(dataset_dir, data) ==
    IF data.kind = "None" THEN open_load(dataset_dir)
    ELSE IF data.kind # "list" THEN Loaded("AssertionError", <<>>, <<>>)
    ELSE Loaded("ok", data.items, <<>>)

(***************************************************************************)
(* What one call yields: the exception or "ok", the returned list, the     *)
(* lines printed (by name), the list of selected values (the local x / y   *)
(* of the frequency functions), the ranked (value, count) list printed by  *)
(* them, and the paths the call passed to open().                          *)
(***************************************************************************)
Result(outcome, ret, printed, y, report) ==
    [outcome |-> outcome, ret |-> ret, printed |-> printed, y |-> y,
     report |-> report, opened |-> <<>>]

\* the result r of a call whose loading block passed files to open()
Opens(files, r) == [r EXCEPT !.opened = files]

Raise(exc, printed, report) == Result(exc, <<>>, printed, <<>>, report)

\* the loading block failed, after the banner and "Data Loading.."
LoadFailed(l) == Opens(l.opened, Raise(l.outcome, <<"banner", "loading">>, <<>>))

\* mutant: an empty query list is taken as "no filter"
RECURSIVE ListCompIn_noquery(_, _, _)
ListCompIn_noquery(train, k, query) ==
    IF train = <<>> THEN <<>>
    ELSE LET line == Head(train)
             rest == ListCompIn_noquery(Tail(train), k, query)
         IN  IF query = <<>> \/ PyIn(Field(line, k), query)
             THEN <<line>> \o rest ELSE rest

\* [line for line in train if line[0][k] in query]
RECURSIVE ListCompIn(_, _, _)
ListCompIn(train, k, query) ==
    IF train = <<>> THEN <<>>
    ELSE LET line == Head(train)
             rest == ListCompIn(Tail(train), k, query)
         IN  IF PyIn(Field(line, k), query) THEN <<line>> \o rest ELSE rest

\* mylist = []; for i in range(len(train)): mylist.append(train[i][0][k])
Column(train, k) == [i \in DOMAIN train |-> Field(train[i], k)]

\* mutant: the selector is used as the offset, without the schema index
mapping_unmapped(indicator) == indicator

\* the 4-field schema index: mapping = {0: 0, 1: 1, 2: 3, 3: 5}
mapping(indicator) ==
    CASE indicator = 0 -> 0
      [] indicator = 1 -> 1
      [] indicator = 2 -> 3
      [] indicator = 3 -> 5

\* mutant: the selectors 4..7 read the offsets 6..9
mapping_v2_dense(indicator) ==
    IF indicator <= 3 THEN mapping(indicator) ELSE indicator + 2

\* the extended schema index: {0: 0, 1: 1, 2: 3, 3: 5, 4: 7, 5: 8, 6: 9, 7: 10}
mapping_v2(indicator) ==
    CASE indicator = 0 -> 0
      [] indicator = 1 -> 1
      [] indicator = 2 -> 3
      [] indicator = 3 -> 5
      [] indicator = 4 -> 7
      [] indicator = 5 -> 8
      [] indicator = 6 -> 9
      [] indicator = 7 -> 10

(***************************************************************************)
(* parse_list, src/src/utils.py: data is the in-memory list.               *)
(***************************************************************************)
\* mutant: the scan starts at the second record
parse_list_skipfirst(data, indicator, query) ==
    IF indicator \notin {0, 1, 2, 3}
    THEN Raise("AssertionError", <<>>, <<>>)
    ELSE LET l == load(data)
         IN  IF l.outcome # "ok" THEN LoadFailed(l)
             ELSE Result("ok",
                         IF l.train = <<>> THEN <<>>
                         ELSE ListCompIn(Tail(l.train), mapping(indicator), query),
                         <<"banner", "loading", "n_train", "parsing_on", "n_parsed">>,
                         <<>>, <<>>)

parse_list(data, indicator, query) ==
    IF indicator \notin {0, 1, 2, 3}
    THEN Raise("AssertionError", <<>>, <<>>)
    ELSE LET l == load(data)
         IN  IF l.outcome # "ok" THEN LoadFailed(l)
             ELSE Opens(l.opened,
             LET train == l.train
                 k == mapping(indicator)
                 parse_data == ListCompIn(train, k, query)
             IN  Result("ok", parse_data,
                        <<"banner", "loading", "n_train", "parsing_on", "n_parsed">>,
                        <<>>, <<>>))

(***************************************************************************)
(* parse_list, src/utils.py: called with a dataset_dir string and data=.   *)
(***************************************************************************)
parse_list_root(dataset_dir, indicator, query, data) ==
    IF dataset_dir.t # "str" \/ indicator \notin {0, 1, 2, 3}
    THEN Raise("AssertionError", <<>>, <<>>)
    ELSE LET l == load_root(dataset_dir, data)
         IN  IF l.outcome # "ok" THEN LoadFailed(l)
             ELSE Opens(l.opened,
             LET train == l.train
                 k == mapping(indicator)
                 parse_data == ListCompIn(train, k, query)
             IN  Result("ok", parse_data,
                        <<"banner", "loading", "n_train", "parsing_on", "n_parsed">>,
                        <<>>, <<>>))

(***************************************************************************)
(* parse_list_v2 (both copies have the same signature and body).           *)
(***************************************************************************)
\* mutant: the string is not split, it is one tag
split_whole(cs) == <<cs>>

\* str.split('|') on a string given as its characters
RECURSIVE split(_)
split(cs) ==
    IF \A i \in DOMAIN cs : cs[i] # "|" THEN <<cs>>
    ELSE LET i == CHOOSE j \in DOMAIN cs :
                      cs[j] = "|" /\ \A h \in 1..(j - 1) : cs[h] # "|"
         IN  <<SubSeq(cs, 1, i - 1)>> \o split(SubSeq(cs, i + 1, Len(cs)))

\* mutant: an empty tag is skipped
AnyTagIn_skipempty(tmp, query) ==
    \E j \in DOMAIN tmp : tmp[j] # <<>> /\ PyIn(PyStr(tmp[j]), query)

\* for a in tmp: if a in query: ... break
AnyTagIn(tmp, query) == \E j \in DOMAIN tmp : PyIn(PyStr(tmp[j]), query)

\* mutant: the inner loop has no break, a record is appended once for every
\* tag of it found in the query
RECURSIVE TagLoop_nobreak(_, _, _)
TagLoop_nobreak(train, k, query) ==
    IF train = <<>> THEN <<>>
    ELSE LET line == Head(train)
             tmp == split(Field(line, k).s)
             hits == Cardinality({j \in DOMAIN tmp : PyIn(PyStr(tmp[j]), query)})
             rest == TagLoop_nobreak(Tail(train), k, query)
         IN  [j \in 1..hits |-> line] \o rest

\* for line in train: tmp = line[0][k][0].split('|'); append line on a match
RECURSIVE TagLoop(_, _, _)
TagLoop(train, k, query) ==
    IF train = <<>> THEN <<>>
    ELSE LET line == Head(train)
             tmp == split(Field(line, k).s)
             rest == TagLoop(Tail(train), k, query)
         IN  IF AnyTagIn(tmp, query) THEN <<line>> \o rest ELSE rest

parse_list_v2(dataset_dir, indicator, query, data) ==
    IF dataset_dir.t # "str" \/ indicator \notin {0, 1, 2, 3, 4, 5, 6, 7}
    THEN Raise("AssertionError", <<>>, <<>>)
    ELSE LET l == load_root(dataset_dir, data)
         IN  IF l.outcome # "ok" THEN LoadFailed(l)
             ELSE Opens(l.opened,
             LET train == l.train
                 k == mapping_v2(indicator)
                 parse_data == IF indicator \in {0, 1, 2, 3, 4}
                               THEN ListCompIn(train, k, query)
                               ELSE TagLoop(train, k, query)
             IN  Result("ok", parse_data,
                        <<"banner", "loading", "n_train", "parsing_on", "n_parsed">>,
                        <<>>, <<>>))

parse_list_v2_root(dataset_dir, indicator, query, data) ==
    IF dataset_dir.t # "str" \/ indicator \notin {0, 1, 2, 3, 4, 5, 6, 7}
    THEN Raise("AssertionError", <<>>, <<>>)
    ELSE LET l == load_root(dataset_dir, data)
         IN  IF l.outcome # "ok" THEN LoadFailed(l)
             ELSE Opens(l.opened,
             LET train == l.train
                 k == mapping_v2(indicator)
                 parse_data == IF indicator \in {0, 1, 2, 3, 4}
                               THEN ListCompIn(train, k, query)
                               ELSE TagLoop(train, k, query)
             IN  Result("ok", parse_data,
                        <<"banner", "loading", "n_train", "parsing_on", "n_parsed">>,
                        <<>>, <<>>))

(***************************************************************************)
(* collections.Counter as the frequency functions use it.                  *)
(***************************************************************************)
\* the keys of Counter(mylist), in insertion (first occurrence) order
RECURSIVE CounterKeys(_)
CounterKeys(mylist) ==
    IF mylist = <<>> THEN <<>>
    ELSE LET before == CounterKeys(SubSeq(mylist, 1, Len(mylist) - 1))
             x == mylist[Len(mylist)]
         IN  IF PyIn(x, before) THEN before ELSE Append(before, x)

CountOf(x, mylist) == Cardinality({i \in DOMAIN mylist : PyEq(mylist[i], x)})

\* Counter(mylist).items(): (value, count) pairs in insertion order
CounterItems(mylist) ==
    LET keys == CounterKeys(mylist)
    IN  [i \in DOMAIN keys |-> <<keys[i], CountOf(keys[i], mylist)>>]

\* mutant: len(mylist), the duplicates counted
NumUnique_len(mylist) == Len(mylist)

\* len(set(mylist))
NumUnique(mylist) == Len(CounterKeys(mylist))

\* mutant: the items are left in insertion order
SortedByCount_unsorted(items) == items

\* sorted(items, key=itemgetter(1), reverse=True): stable, so items of equal
\* count keep their insertion order
RECURSIVE SortedByCount(_)
SortedByCount(items) ==
    IF items = <<>> THEN <<>>
    ELSE LET before == SortedByCount(SubSeq(items, 1, Len(items) - 1))
             x == items[Len(items)]
             ahead == Cardinality({i \in DOMAIN before : before[i][2] >= x[2]})
         IN  SubSeq(before, 1, ahead) \o <<x>> \o SubSeq(before, ahead + 1, Len(before))

\* Counter(mylist).most_common()
most_common_all(mylist) == SortedByCount(CounterItems(mylist))

\* mutant: Counter(mylist).most_common()[:n], a slice of the ranked list
most_common_slice(mylist, n) == PySlice(most_common_all(mylist), 0, n)

\* mutant: the n least common values
most_common_least(mylist, n) ==
    LET ranked == most_common_all(mylist)
    IN  IF n <= 0 THEN <<>>
        ELSE IF n >= Len(ranked) THEN [i \in DOMAIN ranked |-> ranked[Len(ranked) + 1 - i]]
        ELSE [i \in 1..n |-> ranked[Len(ranked) + 1 - i]]

\* Counter(mylist).most_common(n) = heapq.nlargest(n, items, key=count):
\* nothing for n <= 0, else the first n of the sorted items
most_common(mylist, n) ==
    LET ranked == most_common_all(mylist)
    IN  IF n <= 0 THEN <<>>
        ELSE IF n >= Len(ranked) THEN ranked
        ELSE SubSeq(ranked, 1, n)

\* mutant: only the value of the last pair is taken
FirstOfEach_last(pairs) ==
    IF pairs = <<>> THEN <<>> ELSE <<pairs[Len(pairs)][1]>>

\* list(map(lambda x: x[0], pairs))
FirstOfEach(pairs) == [i \in DOMAIN pairs |-> pairs[i][1]]

(***************************************************************************)
(* parse_most_frequent                                                     *)
(***************************************************************************)
\* mutant: n is not checked against the number of distinct values
parse_most_frequent_unchecked(data, indicator, n) ==
    IF indicator \notin {0, 1, 2, 3}
    THEN Raise("AssertionError", <<>>, <<>>)
    ELSE LET l == load(data)
             k == mapping(indicator)
             mylist == Column(l.train, k)
             y == FirstOfEach(most_common(mylist, n))
         IN  IF l.outcome # "ok" THEN LoadFailed(l)
             ELSE Result("ok", ListCompIn(l.train, k, y),
                         <<"banner", "loading", "n_unique", "most_frequent">>,
                         y, most_common(mylist, n))

parse_most_frequent(data, indicator, n) ==
    IF indicator \notin {0, 1, 2, 3}
    THEN Raise("AssertionError", <<>>, <<>>)
    ELSE LET l == load(data)
         IN  IF l.outcome # "ok" THEN LoadFailed(l)
             ELSE Opens(l.opened,
             LET train == l.train
                 k == mapping(indicator)
                 mylist == Column(train, k)
                 report == most_common(mylist, n)
                 printed == <<"banner", "loading", "n_unique", "most_frequent">>
                 y == FirstOfEach(most_common(mylist, n))
             IN  IF ~(n <= NumUnique(mylist))
                 THEN Raise("AssertionError", printed, report)
                 ELSE Result("ok", ListCompIn(train, k, y), printed, y, report))

parse_most_frequent_root(dataset_dir, indicator, n, data) ==
    IF dataset_dir.t # "str" \/ indicator \notin {0, 1, 2}
    THEN Raise("AssertionError", <<>>, <<>>)
    ELSE LET l == load_root(dataset_dir, data)
         IN  IF l.outcome # "ok" THEN LoadFailed(l)
             ELSE Opens(l.opened,
             LET train == l.train
                 k == mapping(indicator)
                 mylist == Column(train, k)
                 report == most_common(mylist, n)
                 printed == <<"banner", "loading", "n_unique", "most_frequent">>
                 y == FirstOfEach(most_common(mylist, n))
             IN  IF ~(n < NumUnique(mylist))
                 THEN Raise("AssertionError", printed, report)
                 ELSE Result("ok", ListCompIn(train, k, y), printed, y, report))

(***************************************************************************)
(* parse_chunk_frequent                                                    *)
(***************************************************************************)
\* mutant: a failing range check of end leaves no output behind
parse_chunk_frequent_eager(data, indicator, start, end) ==
    IF indicator \notin {0, 1, 2} \/ ~(start <= end)
    THEN Raise("AssertionError", <<>>, <<>>)
    ELSE LET l == load(data)
             k == mapping(indicator)
             mylist == Column(l.train, k)
             y == PySlice(FirstOfEach(most_common_all(mylist)), start, end)
         IN  IF l.outcome # "ok" THEN LoadFailed(l)
             ELSE IF ~(end < NumUnique(mylist))
             THEN Raise("AssertionError", <<>>, <<>>)
             ELSE Result("ok", ListCompIn(l.train, k, y),
                         <<"banner", "loading", "n_unique", "desired">>, y, <<>>)

parse_chunk_frequent(data, indicator, start, end) ==
    IF indicator \notin {0, 1, 2} \/ ~(start <= end)
    THEN Raise("AssertionError", <<>>, <<>>)
    ELSE LET l == load(data)
         IN  IF l.outcome # "ok" THEN LoadFailed(l)
             ELSE Opens(l.opened,
             LET train == l.train
                 k == mapping(indicator)
                 mylist == Column(train, k)
                 printed == <<"banner", "loading", "n_unique">>
                 y == PySlice(FirstOfEach(most_common_all(mylist)), start, end)
             IN  IF ~(end < NumUnique(mylist))
                 THEN Raise("AssertionError", printed, <<>>)
                 ELSE Result("ok", ListCompIn(train, k, y),
                             Append(printed, "desired"), y, <<>>))

parse_chunk_frequent_root(dataset_dir, indicator, start, end, data) ==
    IF dataset_dir.t # "str" \/ indicator \notin {0, 1, 2} \/ ~(start <= end)
    THEN Raise("AssertionError", <<>>, <<>>)
    ELSE LET l == load_root(dataset_dir, data)
         IN  IF l.outcome # "ok" THEN LoadFailed(l)
             ELSE Opens(l.opened,
             LET train == l.train
                 k == mapping(indicator)
                 mylist == Column(train, k)
                 printed == <<"banner", "loading", "n_unique">>
                 y == PySlice(FirstOfEach(most_common_all(mylist)), start, end)
             IN  IF ~(end < NumUnique(mylist))
                 THEN Raise("AssertionError", printed, <<>>)
                 ELSE Result("ok", ListCompIn(train, k, y),
                             Append(printed, "desired"), y, <<>>))

(***************************************************************************)
(* cell_line_frequent                                                      *)
(***************************************************************************)
\* mutant: n is checked against the number of distinct cell lines, as in the
\* other copy
cell_line_frequent_asserting(data, n) ==
    LET l == load(data)
        cell_lines == Column(l.train, 0)
        printed == <<"banner", "loading", "retrieving", "n_unique", "most_frequent">>
        x == FirstOfEach(most_common(cell_lines, n))
    IN  IF l.outcome # "ok" THEN LoadFailed(l)
        ELSE IF ~(n < NumUnique(cell_lines))
        THEN Raise("AssertionError", printed, most_common(cell_lines, n))
        ELSE Result("ok", ListCompIn(l.train, 0, x), printed, x,
                    most_common(cell_lines, n))

cell_line_frequent(data, n) ==
    LET l == load(data)
    IN  IF l.outcome # "ok" THEN LoadFailed(l)
        ELSE Opens(l.opened,
        LET train == l.train
            cell_lines == Column(train, 0)
            report == most_common(cell_lines, n)
            printed == <<"banner", "loading", "retrieving", "n_unique", "most_frequent">>
            x == FirstOfEach(most_common(cell_lines, n))
        IN  Result("ok", ListCompIn(train, 0, x),
                   IF n > NumUnique(cell_lines) THEN Append(printed, "UserWarning")
                   ELSE printed,
                   x, report))

cell_line_frequent_root(dataset_dir, n, data) ==
    IF dataset_dir.t # "str" THEN Raise("AssertionError", <<>>, <<>>)
    ELSE
    LET l == load_root(dataset_dir, data)
    IN  IF l.outcome # "ok" THEN LoadFailed(l)
        ELSE Opens(l.opened,
        LET train == l.train
            cell_lines == Column(train, 0)
            report == most_common(cell_lines, n)
            printed == <<"banner", "loading", "retrieving", "n_unique", "most_frequent">>
            x == FirstOfEach(most_common(cell_lines, n))
        IN  IF ~(n < NumUnique(cell_lines))
            THEN Raise("AssertionError", printed, report)
            ELSE Result("ok", ListCompIn(train, 0, x), printed, x, report))

(***************************************************************************)
(* parse_dose_range                                                        *)
(***************************************************************************)
\* mutant: the bounds are inclusive
RECURSIVE ListCompRange_inclusive(_, _, _)
ListCompRange_inclusive(train, dose_min, dose_max) ==
    IF train = <<>> THEN <<>>
    ELSE LET line == Head(train)
             rest == ListCompRange_inclusive(Tail(train), dose_min, dose_max)
         IN  IF Field(line, 3).n >= dose_min /\ Field(line, 3).n <= dose_max
             THEN <<line>> \o rest ELSE rest

\* [line for line in train if line[0][3] > dose_min and line[0][3] < dose_max]
\* (the doses of the collections are numbers, dose_min and dose_max ints)
RECURSIVE ListCompRange(_, _, _)
ListCompRange(train, dose_min, dose_max) ==
    IF train = <<>> THEN <<>>
    ELSE LET line == Head(train)
             rest == ListCompRange(Tail(train), dose_min, dose_max)
         IN  IF Field(line, 3).n > dose_min /\ Field(line, 3).n < dose_max
             THEN <<line>> \o rest ELSE rest

\* mutant: the bounds are compared only after the collection was loaded and
\* filtered
parse_dose_range_latecheck(data, dose_min, dose_max) ==
    LET l == load(data)
    IN  IF l.outcome # "ok" THEN LoadFailed(l)
        ELSE IF ~(dose_min < dose_max)
        THEN Raise("AssertionError", <<"banner", "loading", "n_train", "n_parsed">>, <<>>)
        ELSE Result("ok", ListCompRange(l.train, dose_min, dose_max),
                    <<"banner", "loading", "n_train", "n_parsed">>, <<>>, <<>>)

\* assert isinstance(dose_min, int); assert isinstance(dose_max, int);
\* assert dose_min < dose_max, all before the first print
parse_dose_range(data, dose_min, dose_max) ==
    IF ~(dose_min < dose_max)
    THEN Raise("AssertionError", <<>>, <<>>)
    ELSE LET l == load(data)
         IN  IF l.outcome # "ok" THEN LoadFailed(l)
             ELSE Opens(l.opened,
             LET train == l.train
                 parse_data == ListCompRange(train, dose_min, dose_max)
             IN  Result("ok", parse_data,
                        <<"banner", "loading", "n_train", "n_parsed">>, <<>>, <<>>))

parse_dose_range_root(dataset_dir, dose_min, dose_max, data) ==
    IF dataset_dir.t # "str" \/ ~(dose_min < dose_max)
    THEN Raise("AssertionError", <<>>, <<>>)
    ELSE LET l == load_root(dataset_dir, data)
         IN  IF l.outcome # "ok" THEN LoadFailed(l)
             ELSE Opens(l.opened,
             LET train == l.train
                 parse_data == ListCompRange(train, dose_min, dose_max)
             IN  Result("ok", parse_data,
                        <<"banner", "loading", "n_train", "n_parsed">>, <<>>, <<>>))

(***************************************************************************)
(* cell_line_list                                                          *)
(***************************************************************************)
\* mutant: the compound is compared with cells
cell_line_list_compound(data, cells) ==
    LET l == load(data)
    IN  IF l.outcome # "ok" THEN LoadFailed(l)
        ELSE Result("ok", ListCompIn(l.train, 1, cells),
                    <<"banner", "loading", "n_train", "n_parsed">>, <<>>, <<>>)

cell_line_list(data, cells) ==
    LET l == load(data)
    IN  IF l.outcome # "ok" THEN LoadFailed(l)
        ELSE Opens(l.opened,
        LET train == l.train
            parse_data == ListCompIn(train, 0, cells)
        IN  Result("ok", parse_data,
                   <<"banner", "loading", "n_train", "n_parsed">>, <<>>, <<>>))

cell_line_list_root(dataset_dir, cells, data) ==
    IF dataset_dir.t # "str" THEN Raise("AssertionError", <<>>, <<>>)
    ELSE
    LET l == load_root(dataset_dir, data)
    IN  IF l.outcome # "ok" THEN LoadFailed(l)
        ELSE Opens(l.opened,
        LET train == l.train
            parse_data == ListCompIn(train, 0, cells)
        IN  Result("ok", parse_data,
                   <<"banner", "loading", "n_train", "n_parsed">>, <<>>, <<>>))

(***************************************************************************)
(* The call of the unit test: cell_line_list("dummy", cells, data=data).   *)
(***************************************************************************)
\* the parameters of def cell_line_list, in the order of the signature
Signature(fn) ==
    CASE fn = "cell_line_list" -> <<"data", "cells">>
      [] fn = "cell_line_list_root" -> <<"dataset_dir", "cells", "data">>

Bound(outcome, args) == [outcome |-> outcome, args |-> args]

\* f(*positional, **keywords) of Python: the positional arguments fill the
\* parameters in order, the keywords fill theirs by name; a keyword that
\* names no parameter, or one a positional argument has filled, is a
\* TypeError raised before the body runs
Bind(params, positional, keywords) ==
    IF \/ Len(positional) > Len(params)
       \/ \E k \in DOMAIN keywords : \A i \in DOMAIN params : params[i] # k
       \/ \E k \in DOMAIN keywords : \E i \in DOMAIN positional : params[i] = k
    THEN Bound("TypeError", <<>>)
    ELSE Bound("ok",
               [k \in {params[i] : i \in DOMAIN positional} \cup DOMAIN keywords |->
                   IF k \in DOMAIN keywords THEN keywords[k]
                   ELSE positional[CHOOSE i \in DOMAIN positional : params[i] = k]])

\* parse_data = cell_line_list("dummy", cells, data=data) against the
\* cell_line_list the test module imports (..utils, src/src/utils.py)
test_cell_line_list(path, cells, data) ==
    LET b == Bind(Signature("cell_line_list"), <<path, cells>>, ("data" :> data))
    IN  IF b.outcome # "ok" THEN Raise(b.outcome, <<>>, <<>>)
        ELSE cell_line_list(b.args["data"], b.args["cells"])

\* the same call against cell_line_list of src/utils.py
test_cell_line_list_root(path, cells, data) ==
    LET b == Bind(Signature("cell_line_list_root"), <<path, cells>>, ("data" :> data))
    IN  IF b.outcome # "ok" THEN Raise(b.outcome, <<>>, <<>>)
        ELSE cell_line_list_root(b.args["dataset_dir"], b.args["cells"], b.args["data"])

(***************************************************************************)
(* to_dataframe.  A pandas DataFrame is its column labels and its rows of  *)
(* cells; its index is 0..r-1 throughout.                                  *)
(***************************************************************************)
NaN == [t |-> "float", s |-> <<"n", "a", "n">>, n |-> 0]

col_cell_lines == PyStr(<<"c", "e", "l", "l", "_", "l", "i", "n", "e", "s">>)
col_compounds == PyStr(<<"c", "o", "m", "p", "o", "u", "n", "d", "s">>)
col_doses == PyStr(<<"d", "o", "s", "e", "s">>)
col_times == PyStr(<<"t", "i", "m", "e", "s">>)

\* genes = [line[1] for line in train]
Genes(train) == [i \in DOMAIN train |-> train[i].vec]

\* the length of the longest of the rows
RECURSIVE MaxWidth(_)
MaxWidth(rows) ==
    IF rows = <<>> THEN 0
    ELSE LET w == MaxWidth(Tail(rows))
         IN  IF Len(Head(rows)) > w THEN Len(Head(rows)) ELSE w

\* pd.DataFrame(genes) on a list of 1-d arrays: one row per array, columns
\* 0..m-1 for the longest array length m, a shorter array filled with NaN
DataFrame(genes) ==
    LET m == MaxWidth(genes)
    IN  [columns |-> [j \in 1..m |-> PyInt(j - 1)],
         values |-> [i \in DOMAIN genes |->
                        [j \in 1..m |-> IF j <= Len(genes[i])
                                        THEN PyFloat(genes[i][j]) ELSE NaN]]]

\* pd.DataFrame(metadata) on the dict of the four equally long lists
DataFrameOfDict(train) ==
    [columns |-> <<col_cell_lines, col_compounds, col_doses, col_times>>,
     values |-> [i \in DOMAIN train |->
                    <<Field(train[i], 0), Field(train[i], 1),
                      Field(train[i], 3), Field(train[i], 5)>>]]

\* pd.concat([a, b], axis=1): the columns of a then those of b, rows joined
\* on the index, a row one frame lacks filled with NaN
concat(a, b) ==
    LET r == IF Len(a.values) > Len(b.values) THEN Len(a.values) ELSE Len(b.values)
        row(f, i) == IF i <= Len(f.values) THEN f.values[i]
                     ELSE [j \in DOMAIN f.columns |-> NaN]
    IN  [columns |-> a.columns \o b.columns,
         values |-> [i \in 1..r |-> row(a, i) \o row(b, i)]]

\* mutant: the metadata columns come first
to_dataframe_metafirst(data) ==
    LET l == load(data)
    IN  IF l.outcome # "ok" THEN Opens(l.opened, Raise(l.outcome, <<>>, <<>>))
        ELSE Result("ok", concat(DataFrameOfDict(l.train), DataFrame(Genes(l.train))),
                    <<>>, <<>>, <<>>)

to_dataframe(data) ==
    LET l == load(data)
    IN  IF l.outcome # "ok" THEN Opens(l.opened, Raise(l.outcome, <<>>, <<>>))
        ELSE Opens(l.opened,
        LET train == l.train
            genes == Genes(train)
            data_df == concat(DataFrame(genes), DataFrameOfDict(train))
        IN  Result("ok", data_df, <<>>, <<>>, <<>>))

(***************************************************************************)
(* filtering.py, the command-line script.  flags holds what argparse       *)
(* parsed: --cells, --compounds, --doses and --times are None or a list of *)
(* at least one value (nargs='+'), and --data, declared with type=list, is *)
(* None or list(s), the list of the characters of the argument string s.   *)
(***************************************************************************)
Unset == DataArg("None", <<>>)

\* list(s) for the command-line string s
CharList(cs) == ListData([i \in DOMAIN cs |-> PyStr(<<cs[i]>>)])

AfterParsingPkl ==
    PyStr(<<"D", "a", "t", "a", "/", "a", "f", "t", "e", "r", "_", "p", "a", "r", "s",
            "i", "n", "g", ".", "p", "k", "l">>)

Flags(dataset_dir, data, cells, compounds, doses, times) ==
    [dataset_dir |-> dataset_dir, data |-> data, cells |-> cells,
     compounds |-> compounds, doses |-> doses, times |-> times,
     output_dir |-> AfterParsingPkl]

\* the script between two of its statements: the exception or "ok", the
\* list bound to train, the lines printed
Running(outcome, train, printed) ==
    [outcome |-> outcome, train |-> train, printed |-> printed]

\* line is one of the records; a line that is a one-character string has
\* line[0][0] and no line[0][k] for k > 0
IsRecord(line) == "meta" \in DOMAIN line

\* line[0][k]
Subscript(line, k) == IF IsRecord(line) THEN Field(line, k) ELSE line

\* [line for line in train if line[0][k] in values]
RECURSIVE ListCompFlag(_, _, _)
ListCompFlag(train, k, values) ==
    IF train = <<>> THEN <<>>
    ELSE LET line == Head(train)
             rest == ListCompFlag(Tail(train), k, values)
         IN  IF PyIn(Subscript(line, k), values) THEN <<line>> \o rest ELSE rest

\* if flags.<name> is None: pass / else: train = [...]; print(...)
FilterBy(st, k, flag, line_printed) ==
    IF st.outcome # "ok" \/ flag.kind = "None" THEN st
    ELSE IF \E i \in DOMAIN st.train : ~IsRecord(st.train[i]) /\ k > 0
    THEN Running("IndexError", <<>>, st.printed)
    ELSE Running("ok", ListCompFlag(st.train, k, flag.items),
                 Append(st.printed, line_printed))

\* the script, run with flags on a disk that holds files
filtering(flags, files) ==
    LET l == IF flags.data.kind = "None"
             THEN IF flags.dataset_dir \in DOMAIN files
                  THEN Loaded("ok", files[flags.dataset_dir], <<flags.dataset_dir>>)
                  ELSE Loaded("FileNotFoundError", <<>>, <<flags.dataset_dir>>)
             ELSE Loaded("ok", flags.data.items, <<>>)
    IN  IF l.outcome # "ok" THEN LoadFailed(l)
        ELSE LET s0 == Running("ok", l.train, <<"banner", "loading", "n_train">>)
                 s1 == FilterBy(s0, 0, flags.cells, "n_cells")
                 s2 == FilterBy(s1, 1, flags.compounds, "n_compounds")
                 s3 == FilterBy(s2, 3, flags.doses, "n_doses")
                 s4 == FilterBy(s3, 5, flags.times, "n_times")
             IN  IF s4.outcome # "ok"
                 THEN Opens(l.opened, Raise(s4.outcome, s4.printed, <<>>))
                 ELSE Opens(l.opened \o <<flags.output_dir>>,
                            Result("ok", s4.train, Append(s4.printed, "n_final"),
                                   <<>>, <<>>))

\* the values given on the command line
CellsFlags == {Unset, ListData(<<MCF7>>), ListData(<<HL60, K562>>)}
CompoundsFlags == {Unset, ListData(<<CpdX>>), ListData(<<CpdY, CpdZ>>)}
DosesFlags == {Unset, ListData(<<PyFloat(1)>>), ListData(<<PyFloat(2), PyFloat(3)>>)}
TimesFlags == {Unset, ListData(<<PyInt(6)>>), ListData(<<PyInt(24), PyInt(48)>>)}
DataFlags == {Unset, CharList(<<>>), CharList(<<"a", "b">>)}

(***************************************************************************)
(* The arguments the callers of the model pass.                            *)
(***************************************************************************)
Indicators4 == (0 - 1)..4
Indicators8 == (0 - 1)..8
\* n, start and end: from below zero to above the largest number of distinct
\* values a collection drawn from the pool has
Counts == (0 - 2)..(Cardinality(Pool) + 1)
DoseBounds == 0..4

\* the values a query list on a field is built from: present and absent
\* ones, and for the numeric fields ints, floats and strings
QueryAtoms(indicator) ==
    CASE indicator = 0 -> {MCF7, HL60, K562}
      [] indicator = 1 -> {CpdX, CpdY, CpdZ}
      [] indicator = 2 -> {PyFloat(1), PyInt(2), PyStr(<<"3">>)}
      [] indicator = 3 -> {PyInt(6), PyInt(24), PyInt(48)}
      [] indicator = 4 -> {PyInt(1), PyInt(0), PyStr(<<"1">>)}
      [] indicator = 5 -> {PyStr(<<"L">>), PyStr(<<"P">>), PyStr(<<>>)}
      [] indicator = 6 -> {PyStr(<<"B">>), PyStr(<<"D">>), PyStr(<<>>)}
      [] indicator = 7 -> {PyStr(<<"T">>), PyStr(<<"U">>), PyStr(<<>>)}
      [] OTHER -> {}

\* a call with a selector outside the schema is made with the default query
Queries(indicator) ==
    IF QueryAtoms(indicator) = {} THEN {<<MCF7>>}
    ELSE SeqsUpTo(QueryAtoms(indicator), MaxQ)

(***************************************************************************)
(* State: the collection the caller holds, how the caller passes it (the   *)
(* dataset_dir it names and the kind of its data argument), the last call  *)
(* and what it yielded, and the annotation tables on disk (hub).           *)
(***************************************************************************)
VARIABLES train, caller, pc, call, ret, outcome, printed, y, report, opened,
          objs, hub

vars == <<train, caller, pc, call, ret, outcome, printed, y, report, opened,
          objs, hub>>

(***************************************************************************)
(* drug_info.py.  The drug annotation table and the perturbation table are *)
(* the files read_csv parses; a table is its rows, the perturbation table  *)
(* with or without its is_touchstone column.                               *)
(***************************************************************************)
DrugInfoTxt == "./Data/repurposing_drugs_20180907.txt"
PertInfoTxt == "./Data/pert_info.txt"

DrugRow(pert_iname, moa) == [pert_iname |-> pert_iname, moa |-> moa]

PertRow(pert_iname, pert_type, is_touchstone) ==
    [pert_iname |-> pert_iname, pert_type |-> pert_type,
     is_touchstone |-> is_touchstone]

DrugInfo == << DrugRow("a", "m1"), DrugRow("b", "m2"), DrugRow("d", "m3") >>

PertRows ==
    { PertRow("a", "trt_cp", 1), PertRow("b", "trt_cp", 0),
      PertRow("b", "trt_sh", 1), PertRow("c", "trt_cp", 1),
      PertRow("d", "trt_sh", 1) }

Hub(drug_rows, pert_rows, has_touchstone) ==
    [drug_info |-> drug_rows,
     pert_info |-> [rows |-> pert_rows, has_touchstone |-> has_touchstone]]

StockHub ==
    Hub(DrugInfo, << PertRow("a", "trt_cp", 1), PertRow("b", "trt_sh", 1) >>, TRUE)

Hubs ==
    {Hub(DrugInfo, rows, col) : rows \in SeqsUpTo(PertRows, MaxRows), col \in BOOLEAN}

PertTypes == {"trt_cp", "trt_sh", "trt_oe"}

\* pd.read_csv(path, ...)
read_csv(path) == IF path = DrugInfoTxt THEN hub.drug_info ELSE hub.pert_info

\* pert_info.pert_type.unique()
unique_pert_types(pert_info) ==
    {pert_info.rows[i].pert_type : i \in DOMAIN pert_info.rows}

\* pert_info[(pert_info.pert_type == t) & (pert_info.is_touchstone)]
Touchstones(pert_info, t) ==
    LET keep(row) == row.pert_type = t /\ row.is_touchstone # 0
    IN  SelectSeq(pert_info.rows, keep)

\* pert_info[(pert_info.pert_type == t)]
OfType(pert_info, t) ==
    LET keep(row) == row.pert_type = t
    IN  SelectSeq(pert_info.rows, keep)

\* drug_info[drug_info.pert_iname.isin(x.pert_iname)]
isin(drug_info, x) ==
    LET keep(row) == \E i \in DOMAIN x : x[i].pert_iname = row.pert_iname
    IN  SelectSeq(drug_info, keep)

\* list(frame.pert_iname)
pert_inames(frame) == [i \in DOMAIN frame |-> frame[i].pert_iname]

\* the returned tuple
Pair(pert_supp_info, pert_list) ==
    [pert_supp_info |-> pert_supp_info, pert_list |-> pert_list]

\* src/src/drug_info.py
drug_pert_retrieval(drug_info_dir, pert_info_dir, pert_type) ==
    LET drug_info == read_csv(drug_info_dir)
        pert_info == read_csv(pert_info_dir)
    IN  IF pert_type \notin unique_pert_types(pert_info)
        THEN Raise("AssertionError", <<>>, <<>>)
        ELSE LET x == IF pert_info.has_touchstone
                      THEN Touchstones(pert_info, pert_type)
                      ELSE OfType(pert_info, pert_type)
                 pert_supp_info == isin(drug_info, x)
                 pert_list == pert_inames(pert_supp_info)
             IN  Result("ok", Pair(pert_supp_info, pert_list),
                        <<"banner", "n_touchstone", "n_additional">>, <<>>, <<>>)

\* src/drug_info.py: the selection names 'trt_cp' whatever pert_type is,
\* pert_info.is_touchstone of a table without that column is an
\* AttributeError nothing catches, and pert_list is taken from y, a name
\* that is bound nowhere
drug_pert_retrieval_root(drug_info_dir, pert_info_dir, pert_type) ==
    LET drug_info == read_csv(drug_info_dir)
        pert_info == read_csv(pert_info_dir)
    IN  IF pert_type \notin unique_pert_types(pert_info)
        THEN Raise("AssertionError", <<>>, <<>>)
        ELSE IF ~pert_info.has_touchstone
        THEN Raise("AttributeError", <<>>, <<>>)
        ELSE LET x == Touchstones(pert_info, "trt_cp")
                 pert_supp_info == isin(drug_info, x)
             IN  Raise("NameError", <<"banner", "n_touchstone">>, <<>>)

\* the dataset_dir arguments: a path without a file, the path of the stored
\* collection, and None
DatasetDirs == {Dummy, LandmarkPkl, PyNone}

\* the data argument of the caller's next call
Supplied == DataArg(caller.data, train)

\* the list objects of the caller when a call is entered: its collection C
\* and its query list Q; ret tells which list object the call returned
Objects(C, Q) == [C |-> C, Q |-> Q, ret |-> "none"]

\* mutant: the selection is made in place, the caller's list is returned
Return_inplace(h, r) ==
    IF r.outcome = "ok" THEN [h EXCEPT !.C = r.ret, !.ret = "C"] ELSE h

\* the functions bind train to the caller's list and only read it and the
\* query (for line in train, len(train), ... in query); what they return
\* is the object a list comprehension, an append loop on a new list or a
\* DataFrame constructor created during the call
Return(h, r) ==
    IF r.outcome = "ok" THEN [h EXCEPT !.ret = "new"] ELSE h

Call(fn, dataset_dir, indicator, query, n, start, end, dose_min, dose_max) ==
    [fn |-> fn, dataset_dir |-> dataset_dir, indicator |-> indicator,
     query |-> query, n |-> n, start |-> start, end |-> end,
     dose_min |-> dose_min, dose_max |-> dose_max, pert_type |-> "",
     flags |-> <<>>]

NoCall == Call("none", PyNone, 0, <<>>, 0, 0, 0, 0, 0)

\* the function of utils.py a call record names, applied to a collection
Apply(c, data) ==
    CASE c.fn = "parse_list" -> parse_list(data, c.indicator, c.query)
      [] c.fn = "parse_list_root" ->
             parse_list_root(c.dataset_dir, c.indicator, c.query, data)
      [] c.fn = "parse_list_v2" ->
             parse_list_v2(c.dataset_dir, c.indicator, c.query, data)
      [] c.fn = "parse_list_v2_root" ->
             parse_list_v2_root(c.dataset_dir, c.indicator, c.query, data)
      [] c.fn = "parse_most_frequent" ->
             parse_most_frequent(data, c.indicator, c.n)
      [] c.fn = "parse_most_frequent_root" ->
             parse_most_frequent_root(c.dataset_dir, c.indicator, c.n, data)
      [] c.fn = "parse_chunk_frequent" ->
             parse_chunk_frequent(data, c.indicator, c.start, c.end)
      [] c.fn = "parse_chunk_frequent_root" ->
             parse_chunk_frequent_root(c.dataset_dir, c.indicator, c.start, c.end, data)
      [] c.fn = "cell_line_frequent" -> cell_line_frequent(data, c.n)
      [] c.fn = "cell_line_frequent_root" ->
             cell_line_frequent_root(c.dataset_dir, c.n, data)
      [] c.fn = "parse_dose_range" ->
             parse_dose_range(data, c.dose_min, c.dose_max)
      [] c.fn = "parse_dose_range_root" ->
             parse_dose_range_root(c.dataset_dir, c.dose_min, c.dose_max, data)
      [] c.fn = "cell_line_list" -> cell_line_list(data, c.query)
      [] c.fn = "cell_line_list_root" ->
             cell_line_list_root(c.dataset_dir, c.query, data)
      [] c.fn = "to_dataframe" -> to_dataframe(data)

Init ==
    /\ train \in Collections
    /\ caller = [dataset_dir |-> Dummy, data |-> "list"]
    /\ pc = "idle"
    /\ call = NoCall
    /\ ret = <<>>
    /\ outcome = "none"
    /\ printed = <<>>
    /\ y = <<>>
    /\ report = <<>>
    /\ opened = <<>>
    /\ objs = Objects(train, <<>>)
    /\ hub = StockHub

\* a caller that holds one of the collections and passes it as c tells
Start(collections, c) ==
    /\ train \in collections
    /\ caller = c
    /\ pc = "idle"
    /\ call = NoCall
    /\ ret = <<>>
    /\ outcome = "none"
    /\ printed = <<>>
    /\ y = <<>>
    /\ report = <<>>
    /\ opened = <<>>
    /\ objs = Objects(train, <<>>)
    /\ hub = StockHub

\* the collection is passed as a list or, by mistake, as a tuple
InitCalls ==
    \/ Start(Collections, [dataset_dir |-> Dummy, data |-> "list"])
    \/ Start(SeqsUpTo(Pool, MaxTuple), [dataset_dir |-> Dummy, data |-> "tuple"])

\* the caller of a function that takes dataset_dir passes its collection
\* through data, or holds none and leaves data at None
InitLoad ==
    \E d \in DatasetDirs :
        \/ Start(Collections, [dataset_dir |-> d, data |-> "list"])
        \/ Start({<<>>}, [dataset_dir |-> d, data |-> "None"])

\* the user of the script has pickled its collection and names that file,
\* the default file or a file that does not exist
InitScript ==
    \E d \in {SamplePkl, LandmarkPkl, Dummy} :
        Start(Collections, [dataset_dir |-> d, data |-> "None"])

\* a caller of drug_info.py holds no collection; the tables are on disk
InitDrug ==
    /\ train = <<>>
    /\ caller = [dataset_dir |-> Dummy, data |-> "list"]
    /\ pc = "idle"
    /\ call = NoCall
    /\ ret = <<>>
    /\ outcome = "none"
    /\ printed = <<>>
    /\ y = <<>>
    /\ report = <<>>
    /\ opened = <<>>
    /\ objs = Objects(train, <<>>)
    /\ hub \in Hubs

\* call c has run on the caller's collection to its return or its exception,
\* yielding r; the collection is an argument, never assigned
Invoke(c, r) ==
    /\ pc' = "returned"
    /\ call' = c
    /\ ret' = r.ret
    /\ outcome' = r.outcome
    /\ printed' = r.printed
    /\ y' = r.y
    /\ report' = r.report
    /\ opened' = r.opened
    /\ objs' = Return(Objects(train, c.query), r)
    /\ train' = objs'.C
    /\ UNCHANGED <<caller, hub>>

CallParseList ==
    /\ pc = "idle"
    /\ \E i \in Indicators4 : \E q \in Queries(i) :
           Invoke(Call("parse_list", PyNone, i, q, 0, 0, 0, 0, 0),
                  parse_list(Supplied, i, q))

CallParseListRoot ==
    /\ pc = "idle"
    /\ \E i \in Indicators4 : \E q \in Queries(i) :
           Invoke(Call("parse_list_root", caller.dataset_dir, i, q, 0, 0, 0, 0, 0),
                  parse_list_root(caller.dataset_dir, i, q, Supplied))

CallParseListV2 ==
    /\ pc = "idle"
    /\ \E i \in Indicators8 : \E q \in Queries(i) :
           Invoke(Call("parse_list_v2", caller.dataset_dir, i, q, 0, 0, 0, 0, 0),
                  parse_list_v2(caller.dataset_dir, i, q, Supplied))

CallParseListV2Root ==
    /\ pc = "idle"
    /\ \E i \in Indicators8 : \E q \in Queries(i) :
           Invoke(Call("parse_list_v2_root", caller.dataset_dir, i, q, 0, 0, 0, 0, 0),
                  parse_list_v2_root(caller.dataset_dir, i, q, Supplied))

CallParseMostFrequent ==
    /\ pc = "idle"
    /\ \E i \in Indicators4 : \E n \in Counts :
           Invoke(Call("parse_most_frequent", PyNone, i, <<>>, n, 0, 0, 0, 0),
                  parse_most_frequent(Supplied, i, n))

CallParseMostFrequentRoot ==
    /\ pc = "idle"
    /\ \E i \in Indicators4 : \E n \in Counts :
           Invoke(Call("parse_most_frequent_root", caller.dataset_dir, i, <<>>, n, 0, 0, 0, 0),
                  parse_most_frequent_root(caller.dataset_dir, i, n, Supplied))

CallParseChunkFrequent ==
    /\ pc = "idle"
    /\ \E i \in Indicators4 : \E s \in Counts : \E e \in Counts :
           Invoke(Call("parse_chunk_frequent", PyNone, i, <<>>, 0, s, e, 0, 0),
                  parse_chunk_frequent(Supplied, i, s, e))

CallParseChunkFrequentRoot ==
    /\ pc = "idle"
    /\ \E i \in Indicators4 : \E s \in Counts : \E e \in Counts :
           Invoke(Call("parse_chunk_frequent_root", caller.dataset_dir, i, <<>>, 0, s, e, 0, 0),
                  parse_chunk_frequent_root(caller.dataset_dir, i, s, e, Supplied))

CallCellLineFrequent ==
    /\ pc = "idle"
    /\ \E n \in Counts :
           Invoke(Call("cell_line_frequent", PyNone, 0, <<>>, n, 0, 0, 0, 0),
                  cell_line_frequent(Supplied, n))

CallCellLineFrequentRoot ==
    /\ pc = "idle"
    /\ \E n \in Counts :
           Invoke(Call("cell_line_frequent_root", caller.dataset_dir, 0, <<>>, n, 0, 0, 0, 0),
                  cell_line_frequent_root(caller.dataset_dir, n, Supplied))

CallParseDoseRange ==
    /\ pc = "idle"
    /\ \E lo \in DoseBounds : \E hi \in DoseBounds :
           Invoke(Call("parse_dose_range", PyNone, 0, <<>>, 0, 0, 0, lo, hi),
                  parse_dose_range(Supplied, lo, hi))

CallParseDoseRangeRoot ==
    /\ pc = "idle"
    /\ \E lo \in DoseBounds : \E hi \in DoseBounds :
           Invoke(Call("parse_dose_range_root", caller.dataset_dir, 0, <<>>, 0, 0, 0, lo, hi),
                  parse_dose_range_root(caller.dataset_dir, lo, hi, Supplied))

CallCellLineList ==
    /\ pc = "idle"
    /\ \E cells \in Queries(0) :
           Invoke(Call("cell_line_list", PyNone, 0, cells, 0, 0, 0, 0, 0),
                  cell_line_list(Supplied, cells))

CallCellLineListRoot ==
    /\ pc = "idle"
    /\ \E cells \in Queries(0) :
           Invoke(Call("cell_line_list_root", caller.dataset_dir, 0, cells, 0, 0, 0, 0, 0),
                  cell_line_list_root(caller.dataset_dir, cells, Supplied))

CallToDataframe ==
    /\ pc = "idle"
    /\ Invoke(Call("to_dataframe", PyNone, 0, <<>>, 0, 0, 0, 0, 0),
              to_dataframe(Supplied))

CallDrugPertRetrieval ==
    /\ pc = "idle"
    /\ \E t \in PertTypes :
           Invoke([Call("drug_pert_retrieval", PyNone, 0, <<>>, 0, 0, 0, 0, 0)
                       EXCEPT !.pert_type = t],
                  drug_pert_retrieval(DrugInfoTxt, PertInfoTxt, t))

CallDrugPertRetrievalRoot ==
    /\ pc = "idle"
    /\ \E t \in PertTypes :
           Invoke([Call("drug_pert_retrieval_root", PyNone, 0, <<>>, 0, 0, 0, 0, 0)
                       EXCEPT !.pert_type = t],
                  drug_pert_retrieval_root(DrugInfoTxt, PertInfoTxt, t))

\* python filtering.py --dataset_dir ... [--data ...] [--cells ...] ...; the
\* user's collection is the one pickled at data/sample.pkl
RunFiltering ==
    /\ pc = "idle"
    /\ \E data \in DataFlags, cells \in CellsFlags, compounds \in CompoundsFlags,
          doses \in DosesFlags, times \in TimesFlags :
           LET flags == Flags(caller.dataset_dir, data, cells, compounds, doses, times)
           IN  Invoke([Call("filtering", caller.dataset_dir, 0, <<>>, 0, 0, 0, 0, 0)
                           EXCEPT !.flags = flags],
                      filtering(flags, (SamplePkl :> train) @@ Disk))

\* test_cell_line_list of the unit test, run on either copy of utils.py
TestCellLineList ==
    /\ pc = "idle"
    /\ \E cells \in Queries(0) :
           Invoke(Call("test_cell_line_list", caller.dataset_dir, 0, cells, 0, 0, 0, 0, 0),
                  test_cell_line_list(caller.dataset_dir, cells, Supplied))

TestCellLineListRoot ==
    /\ pc = "idle"
    /\ \E cells \in Queries(0) :
           Invoke(Call("test_cell_line_list_root", caller.dataset_dir, 0, cells, 0, 0, 0, 0, 0),
                  test_cell_line_list_root(caller.dataset_dir, cells, Supplied))

\* the caller passes the returned collection to the same call once more
Again ==
    LET r == Apply(call, ListData(ret))
    IN  /\ pc = "returned"
        /\ outcome = "ok"
        /\ pc' = "again"
        /\ train' = ret
        /\ ret' = r.ret
        /\ outcome' = r.outcome
        /\ printed' = r.printed
        /\ y' = r.y
        /\ report' = r.report
        /\ opened' = r.opened
        /\ objs' = Return(Objects(ret, call.query), r)
        /\ UNCHANGED <<call, caller, hub>>

\* the caller drops the result and keeps its collection for the next call
Done ==
    /\ pc \in {"returned", "again"}
    /\ pc' = "idle"
    /\ call' = NoCall
    /\ ret' = <<>>
    /\ outcome' = "none"
    /\ printed' = <<>>
    /\ y' = <<>>
    /\ report' = <<>>
    /\ opened' = <<>>
    /\ objs' = Objects(train, <<>>)
    /\ UNCHANGED <<train, caller, hub>>

\* the exact-match and tag filters
NextFilter ==
    \/ CallParseList
    \/ CallParseListRoot
    \/ CallParseListV2
    \/ CallParseListV2Root
    \/ Again
    \/ Done

\* the frequency-ranked selectors
NextFreq ==
    \/ CallParseMostFrequent
    \/ CallParseMostFrequentRoot
    \/ CallParseChunkFrequent
    \/ CallParseChunkFrequentRoot
    \/ CallCellLineFrequent
    \/ CallCellLineFrequentRoot
    \/ Done

\* the dose range filter
NextDose ==
    \/ CallParseDoseRange
    \/ CallParseDoseRangeRoot
    \/ Done

\* the cell-line filter
NextCells ==
    \/ CallCellLineList
    \/ CallCellLineListRoot
    \/ Done

\* the flattening into a table
NextTable ==
    \/ CallToDataframe
    \/ Done

\* the unit test of cell_line_list
NextTest ==
    \/ TestCellLineList
    \/ TestCellLineListRoot
    \/ Done

\* the drug annotation lookup
NextDrug ==
    \/ CallDrugPertRetrieval
    \/ CallDrugPertRetrievalRoot
    \/ Done

\* the command-line script
NextScript ==
    \/ RunFiltering
    \/ Done

\* every function, one call at a time
NextCalls ==
    \/ CallParseList
    \/ CallParseListRoot
    \/ CallParseListV2
    \/ CallParseListV2Root
    \/ CallParseMostFrequent
    \/ CallParseMostFrequentRoot
    \/ CallParseChunkFrequent
    \/ CallParseChunkFrequentRoot
    \/ CallCellLineFrequent
    \/ CallCellLineFrequentRoot
    \/ CallParseDoseRange
    \/ CallParseDoseRangeRoot
    \/ CallCellLineList
    \/ CallCellLineListRoot
    \/ CallToDataframe
    \/ Done

\* functions that take dataset_dir next to data
NextLoad ==
    \/ CallParseListRoot
    \/ CallParseListV2
    \/ CallCellLineListRoot
    \/ CallCellLineFrequentRoot
    \/ CallParseDoseRangeRoot
    \/ Done

Next == NextFilter \/ NextFreq \/ NextDose \/ NextCells \/ NextTable \/ NextTest
            \/ NextDrug \/ NextScript

Spec == Init /\ [][Next]_vars
SpecFilter == Init /\ [][NextFilter]_vars
SpecFreq == Init /\ [][NextFreq]_vars
SpecDose == Init /\ [][NextDose]_vars
SpecCells == Init /\ [][NextCells]_vars
SpecTable == Init /\ [][NextTable]_vars
SpecTest == Init /\ [][NextTest]_vars
SpecDrug == InitDrug /\ [][NextDrug]_vars
SpecScript == InitScript /\ [][NextScript]_vars
SpecCalls == InitCalls /\ [][NextCalls]_vars
SpecLoad == InitLoad /\ [][NextLoad]_vars

(***************************************************************************)
(* Vocabulary of the properties, stated on the caller's collection and     *)
(* independent of the functions above.                                     *)
(***************************************************************************)
\* metadata offset of selector s: 0..3 in the 4-field schema, 0..7 extended
SchemaOffset(s) == <<0, 1, 3, 5, 7, 8, 9, 10>>[s + 1]

\* the field selector s reads in record i of the caller's collection
FieldAt(i, s) == train[i].meta[SchemaOffset(s) + 1]

\* the subsequence of seq at the positions I, in the order of seq
RECURSIVE Restrict(_, _)
Restrict(seq, I) ==
    IF seq = <<>> THEN <<>>
    ELSE LET front == Restrict(SubSeq(seq, 1, Len(seq) - 1), I)
         IN  IF Len(seq) \in I THEN Append(front, seq[Len(seq)]) ELSE front

Ran == pc \in {"returned", "again"}

\* the call was an exact-match filter with a selector of its schema
ExactMatchCall ==
    /\ Ran
    /\ \/ call.fn \in {"parse_list", "parse_list_root"} /\ call.indicator \in 0..3
       \/ call.fn \in {"parse_list_v2", "parse_list_v2_root"} /\ call.indicator \in 0..4

\* C1: the exact-match filter returns an order-preserving subsequence of the
\* collection; every returned record has its field at the selector's offset
\* in the query list and no record left out has
ExactMatchSubsequence ==
    ExactMatchCall =>
        /\ outcome = "ok"
        /\ \E I \in SUBSET DOMAIN train :
              /\ ret = Restrict(train, I)
              /\ \A i \in I : PyIn(FieldAt(i, call.indicator), call.query)
              /\ \A i \in DOMAIN train \ I :
                     ~PyIn(FieldAt(i, call.indicator), call.query)

\* a filter on the dose kept some records and left others out
ExactMatchWitness ==
    /\ pc = "returned"
    /\ call.fn = "parse_list"
    /\ call.indicator = 2
    /\ outcome = "ok"
    /\ ret # <<>>
    /\ Len(ret) < Len(train)

\* C2: with an empty query list the exact-match filter returns an empty
\* collection and does not fail
EmptyQueryEmptyResult ==
    (ExactMatchCall /\ call.query = <<>>) => (outcome = "ok" /\ ret = <<>>)

EmptyQueryWitness ==
    /\ pc = "returned"
    /\ call.fn \in {"parse_list", "parse_list_v2"}
    /\ call.indicator \in 0..3
    /\ call.query = <<>>
    /\ train # <<>>
    /\ outcome = "ok"

\* C3: filtering the result of the exact-match filter again with the same
\* selector and query list returns the same records in the same order (in
\* pc = "again" the collection passed is the result of the first call)
ExactMatchIdempotent ==
    (pc = "again" /\ ExactMatchCall) => (outcome = "ok" /\ ret = train)

IdempotentWitness ==
    /\ pc = "again"
    /\ call.fn = "parse_list"
    /\ Len(call.query) = 2
    /\ Len(ret) >= 2
    /\ ret[1] # ret[2]

(***************************************************************************)
(* Vocabulary of the frequency properties.                                 *)
(***************************************************************************)
\* how often the field of record i occurs in the collection
Occ(i, s) ==
    Cardinality({j \in DOMAIN train : PyEq(FieldAt(j, s), FieldAt(i, s))})

\* the positions where a value of field s is encountered first
Firsts(s) ==
    {i \in DOMAIN train : \A j \in 1..(i - 1) : ~PyEq(FieldAt(j, s), FieldAt(i, s))}

\* the number of distinct values of field s
Distinct(s) == Cardinality(Firsts(s))

\* where value v of field s is encountered first (0 if it never occurs)
FirstOfValue(v, s) ==
    IF \E j \in DOMAIN train : PyEq(FieldAt(j, s), v)
    THEN CHOOSE j \in Firsts(s) : PyEq(FieldAt(j, s), v)
    ELSE 0

\* the value first met at u ranks before the one first met at v: it occurs
\* more often, or as often and is encountered earlier
RanksBefore(u, v, s) ==
    \/ Occ(u, s) > Occ(v, s)
    \/ Occ(u, s) = Occ(v, s) /\ u < v

\* 0-based position, in the ranked list, of the value of record i
RankPos(i, s) ==
    LET v == FirstOfValue(FieldAt(i, s), s)
    IN  Cardinality({u \in Firsts(s) : RanksBefore(u, v, s)})

\* the number of distinct values of field s among the records of seq
DistinctIn(seq, s) ==
    Cardinality({i \in DOMAIN seq :
        \A j \in 1..(i - 1) :
            ~PyEq(seq[j].meta[SchemaOffset(s) + 1], seq[i].meta[SchemaOffset(s) + 1])})

TopNFns == {"parse_most_frequent", "parse_most_frequent_root",
            "cell_line_frequent", "cell_line_frequent_root"}
ChunkFns == {"parse_chunk_frequent", "parse_chunk_frequent_root"}

\* the selector of a frequency call (cell_line_frequent ranks the cell line)
FreqSelector ==
    IF call.fn \in {"cell_line_frequent", "cell_line_frequent_root"} THEN 0
    ELSE call.indicator

\* the call was a frequency-ranked selection with a selector of the schema
FreqCall == pc = "returned" /\ call.fn \in TopNFns \cup ChunkFns /\ FreqSelector \in 0..3

\* a list of values of field s is in ranked order
IsRanked(values, s) ==
    /\ \A i \in DOMAIN values : FirstOfValue(values[i], s) # 0
    /\ \A i, j \in DOMAIN values :
           i < j => RanksBefore(FirstOfValue(values[i], s), FirstOfValue(values[j], s), s)

\* C4: the ranked list of distinct values a frequency-ranked selector
\* computes (the printed (value, count) report and the selected values) is
\* sorted by descending occurrence count, values of equal count in the
\* order in which they are first encountered in the collection
RankedByCountThenFirstSeen ==
    FreqCall =>
        /\ IsRanked(y, FreqSelector)
        /\ IsRanked([i \in DOMAIN report |-> report[i][1]], FreqSelector)
        /\ \A i \in DOMAIN report :
               report[i][2] = Occ(FirstOfValue(report[i][1], FreqSelector), FreqSelector)

\* a full ranked list with a strict step and a tie: the value encountered
\* first is not the most frequent one
RankedWitness ==
    /\ FreqCall
    /\ call.fn = "parse_most_frequent"
    /\ Len(report) = 3
    /\ report[1][2] > report[2][2]
    /\ report[2][2] = report[3][2]
    /\ ~PyEq(report[1][1], FieldAt(1, FreqSelector))

\* a top-N call with a selector of the schema has returned or failed
TopNCall == pc = "returned" /\ call.fn \in TopNFns /\ FreqSelector \in 0..3

\* C5 as stated: parse_most_frequent called with n equal to the number of
\* distinct values of the selected field fails and returns no collection
\* (stated for the collections that are not empty, where that number is
\* at least 1)
TopNAtDistinctFails ==
    (/\ TopNCall
     /\ call.fn \in {"parse_most_frequent", "parse_most_frequent_root"}
     /\ call.n >= 1
     /\ call.n = Distinct(FreqSelector))
        => outcome = "AssertionError"

\* C5 amended: with n equal to the number of distinct values,
\* parse_most_frequent of src/utils.py fails and returns no collection, and
\* parse_most_frequent of src/src/utils.py succeeds and returns every record
\* of the collection in the original order
TopNAtDistinctByCopy ==
    (TopNCall /\ call.n = Distinct(FreqSelector)) =>
        /\ call.fn = "parse_most_frequent_root" =>
               (outcome = "AssertionError" /\ ret = <<>>)
        /\ call.fn = "parse_most_frequent" => (outcome = "ok" /\ ret = train)

TopNAtDistinctWitness ==
    /\ TopNCall
    /\ call.fn = "parse_most_frequent"
    /\ call.n = Distinct(FreqSelector)
    /\ call.n >= 2
    /\ Len(train) > call.n
    /\ outcome = "ok"

\* C6 as stated: every top-N operation called with n strictly greater than
\* the number of distinct values fails and returns no collection (stated
\* for the collections that are not empty)
TopNAboveDistinctFails ==
    (TopNCall /\ train # <<>> /\ call.n > Distinct(FreqSelector))
        => outcome = "AssertionError"

\* C6 amended: with n strictly greater than the number of distinct values,
\* parse_most_frequent (both copies) and cell_line_frequent of src/utils.py
\* fail and return no collection; cell_line_frequent of src/src/utils.py
\* warns and returns every record of the collection in the original order
TopNAboveDistinctByCopy ==
    (TopNCall /\ call.n > Distinct(FreqSelector)) =>
        /\ call.fn # "cell_line_frequent" =>
               (outcome = "AssertionError" /\ ret = <<>>)
        /\ call.fn = "cell_line_frequent" =>
               /\ outcome = "ok"
               /\ ret = train
               /\ \E i \in DOMAIN printed : printed[i] = "UserWarning"

TopNAboveDistinctWitness ==
    /\ TopNCall
    /\ call.fn = "cell_line_frequent"
    /\ call.n > Distinct(0)
    /\ Distinct(0) >= 2
    /\ outcome = "ok"

\* the records whose value is among the first n of the ranked list
FirstRanked(n) == {i \in DOMAIN train : RankPos(i, FreqSelector) < n}

Min(a, b) == IF a < b THEN a ELSE b
Max(a, b) == IF a > b THEN a ELSE b

\* C7 as stated: an accepted top-N selection returns exactly the records, in
\* their original order, whose value is one of the first n of the ranked
\* list, and the result holds exactly n distinct values
TopNExactlyN ==
    (TopNCall /\ outcome = "ok") =>
        /\ ret = Restrict(train, FirstRanked(call.n))
        /\ DistinctIn(ret, FreqSelector) = call.n

\* C7 amended: ... and the result holds exactly min(max(n, 0), D) distinct
\* values, D being the number of distinct values of the field
TopNFirstRanked ==
    (TopNCall /\ outcome = "ok") =>
        /\ ret = Restrict(train, FirstRanked(call.n))
        /\ DistinctIn(ret, FreqSelector) =
               Min(Max(call.n, 0), Distinct(FreqSelector))

TopNFirstRankedWitness ==
    /\ TopNCall
    /\ call.fn = "parse_most_frequent_root"
    /\ outcome = "ok"
    /\ call.n = 2
    /\ Distinct(FreqSelector) = 3
    /\ Len(ret) = 3

ChunkCall == pc = "returned" /\ call.fn \in ChunkFns /\ call.indicator \in 0..3

\* C8 as stated: for every accepted (start, end), negative ones included,
\* the records returned are those whose value sits at a 0-based position p
\* of the ranked list with start <= p <= end - 1
ChunkPositionsAsGiven ==
    (ChunkCall /\ outcome = "ok") =>
        ret = Restrict(train,
                  {i \in DOMAIN train :
                      /\ call.start <= RankPos(i, call.indicator)
                      /\ RankPos(i, call.indicator) <= call.end - 1})

\* a negative index counts from the end of the ranked list of D values
FromEnd(i, D) == IF i < 0 THEN Max(i + D, 0) ELSE i

\* C8 amended: for every accepted (start, end) the records returned are
\* those at positions s <= p <= e - 1, where s and e are start and end when
\* these are not negative and max(start + D, 0), max(end + D, 0) when they
\* are, D being the number of distinct values
ChunkPositionsFromEnd ==
    (ChunkCall /\ outcome = "ok") =>
        LET D == Distinct(call.indicator)
        IN  ret = Restrict(train,
                      {i \in DOMAIN train :
                          /\ FromEnd(call.start, D) <= RankPos(i, call.indicator)
                          /\ RankPos(i, call.indicator) <= FromEnd(call.end, D) - 1})

ChunkPositionsWitness ==
    /\ ChunkCall
    /\ outcome = "ok"
    /\ call.start = 1
    /\ call.end = 2
    /\ ret # <<>>
    /\ Len(ret) < Len(train)

\* C9: parse_chunk_frequent fails when start > end, fails when end is at
\* least the number of distinct values, and succeeds when
\* start <= end < distinct count (stated for start >= 0, for every selector
\* of the 4-field schema)
ChunkRangeChecked ==
    (ChunkCall /\ call.start >= 0) =>
        /\ call.start > call.end => outcome = "AssertionError"
        /\ call.end >= Distinct(call.indicator) => outcome = "AssertionError"
        /\ (call.start <= call.end /\ call.end < Distinct(call.indicator))
               => outcome = "ok"

DoseCall == pc = "returned" /\ call.fn \in {"parse_dose_range", "parse_dose_range_root"}

\* C10: parse_dose_range returns exactly the records, in original order,
\* whose dose (metadata offset 3) is strictly between dose_min and dose_max;
\* a record whose dose equals either bound is excluded
DoseStrictlyBetween ==
    (DoseCall /\ call.dose_min < call.dose_max) =>
        /\ outcome = "ok"
        /\ ret = Restrict(train,
                     {i \in DOMAIN train :
                         /\ call.dose_min < train[i].meta[4].n
                         /\ train[i].meta[4].n < call.dose_max})
        /\ \A j \in DOMAIN ret :
               ret[j].meta[4].n # call.dose_min /\ ret[j].meta[4].n # call.dose_max

\* records at both bounds are dropped and one in between is kept
DoseBoundaryWitness ==
    /\ DoseCall
    /\ outcome = "ok"
    /\ \E i \in DOMAIN train : train[i].meta[4].n = call.dose_min
    /\ \E i \in DOMAIN train : train[i].meta[4].n = call.dose_max
    /\ Len(ret) = 1

\* C11: a parse_dose_range call with dose_min >= dose_max fails with an
\* AssertionError raised before anything is printed and before the collection
\* is loaded or scanned, and returns no collection
DoseBoundsCheckedFirst ==
    (DoseCall /\ call.dose_min >= call.dose_max) =>
        /\ outcome = "AssertionError"
        /\ printed = <<>>
        /\ ret = <<>>
        /\ report = <<>>

\* equal bounds, and a record whose dose lies at that bound, still fail
DoseBoundsWitness ==
    /\ DoseCall
    /\ call.dose_min = call.dose_max
    /\ \E i \in DOMAIN train : train[i].meta[4].n = call.dose_min
    /\ outcome = "AssertionError"

\* the call was a tag-set filter: parse_list_v2 with selector 5, 6 or 7
TagCall ==
    /\ Ran
    /\ call.fn \in {"parse_list_v2", "parse_list_v2_root"}
    /\ call.indicator \in 5..7

\* t is one of the strings between the '|' separators of cs
IsTagOf(cs, t) ==
    \E a \in 1..(Len(cs) + 1) : \E b \in (a - 1)..Len(cs) :
        /\ a = 1 \/ cs[a - 1] = "|"
        /\ b = Len(cs) \/ cs[b + 1] = "|"
        /\ \A h \in a..b : cs[h] # "|"
        /\ t = [h \in 1..(b - a + 1) |-> cs[a + h - 1]]

\* the positions of the collection whose tag field shares a tag with the query
TagMatches ==
    {i \in DOMAIN train :
        \E j \in DOMAIN call.query :
            /\ call.query[j].t = "str"
            /\ IsTagOf(FieldAt(i, call.indicator).s, call.query[j].s)}

ABC == <<"A", "|", "B", "|", "C">>

\* the number of records of seq whose mechanism-of-action field is "A|B|C"
CountABC(seq) == Cardinality({i \in DOMAIN seq : seq[i].meta[10].s = ABC})

\* C12: for selectors 5, 6 and 7 parse_list_v2 retains a record exactly when
\* one of the strings obtained by splitting the first element of its field on
\* '|' is in the query; a record with field "A|B|C" is retained for ["B"]
\* and for ["D", "B"] and dropped for ["D"]
TagSetMembership ==
    TagCall =>
        /\ outcome = "ok"
        /\ ret = Restrict(train, TagMatches)
        /\ (call.indicator = 6 /\ call.query \in {<<PyStr(<<"B">>)>>,
                                                    <<PyStr(<<"D">>), PyStr(<<"B">>)>>})
               => CountABC(ret) = CountABC(train)
        /\ (call.indicator = 6 /\ call.query = <<PyStr(<<"D">>)>>)
               => CountABC(ret) = 0

\* ["D", "B"] retains the "A|B|C" record and the "D" record, drops the third
TagSetWitness ==
    /\ TagCall
    /\ call.indicator = 6
    /\ call.query = <<PyStr(<<"D">>), PyStr(<<"B">>)>>
    /\ CountABC(train) = 1
    /\ Len(train) = 3
    /\ Len(ret) = 2

\* C13: the result of a tag-set filter is the collection restricted to a set
\* of positions: original order, every input record at most once, also when
\* several tags of a record are in the query or the query repeats a tag
TagSetOrderedOnce ==
    TagCall =>
        /\ \E I \in SUBSET (DOMAIN train) : ret = Restrict(train, I)
        /\ \A i \in DOMAIN train :
               Cardinality({j \in DOMAIN ret : ret[j] = train[i]})
                   <= Cardinality({j \in DOMAIN train : train[j] = train[i]})

\* both tags of the "T|U" record are in the query and it is returned once,
\* behind the record that precedes it in the collection
TagSetOnceWitness ==
    /\ TagCall
    /\ call.indicator = 7
    /\ Len(call.query) = 2
    /\ call.query[1] # call.query[2]
    /\ Len(train) = 2
    /\ train[2].meta[11].s = <<"T", "|", "U">>
    /\ train[1].meta[11].s = <<"T">>
    /\ \A j \in 1..2 : call.query[j].s \in {<<"T">>, <<"U">>}
    /\ ret = train

\* the call was one of the list filters, with any selector
SelectorCall ==
    /\ Ran
    /\ call.fn \in {"parse_list", "parse_list_root", "parse_list_v2", "parse_list_v2_root"}

\* the schema index as the specification tabulates it
IndexTable ==
    IF call.fn \in {"parse_list", "parse_list_root"}
    THEN (0 :> 0) @@ (1 :> 1) @@ (2 :> 3) @@ (3 :> 5)
    ELSE (0 :> 0) @@ (1 :> 1) @@ (2 :> 3) @@ (3 :> 5) @@
         (4 :> 7) @@ (5 :> 8) @@ (6 :> 9) @@ (7 :> 10)

\* record i is selected when the field at the tabulated offset is in the
\* query (selectors 0..4) or shares a tag with it (selectors 5..7)
SelectedAt(i) ==
    LET field == train[i].meta[IndexTable[call.indicator] + 1]
    IN  IF call.indicator <= 4
        THEN \E j \in DOMAIN call.query : PyEq(field, call.query[j])
        ELSE \E j \in DOMAIN call.query :
                 call.query[j].t = "str" /\ IsTagOf(field.s, call.query[j].s)

\* C16: selectors 0, 1, 2, 3 read the metadata offsets 0, 1, 3, 5 and, in the
\* extended schema, 4, 5, 6, 7 read the offsets 7, 8, 9, 10; parse_list fails
\* for every selector outside 0..3 and parse_list_v2 for every selector
\* outside 0..7, and a failing call returns no collection
SchemaIndexAndRange ==
    SelectorCall =>
        IF call.indicator \in DOMAIN IndexTable
        THEN /\ outcome = "ok"
             /\ ret = Restrict(train, {i \in DOMAIN train : SelectedAt(i)})
        ELSE /\ outcome = "AssertionError"
             /\ ret = <<>>

\* selector 4 of the extended schema keeps the records whose field at
\* offset 7 is in the query and drops the others
SchemaIndexWitness ==
    /\ SelectorCall
    /\ call.fn = "parse_list_v2"
    /\ call.indicator = 4
    /\ ret # <<>>
    /\ Len(ret) < Len(train)
    /\ \A j \in DOMAIN ret : ret[j].meta[8] = PyInt(1)

\* the call was parse_most_frequent or parse_chunk_frequent, either copy
SelectorFreqCall ==
    /\ pc = "returned"
    /\ call.fn \in {"parse_most_frequent", "parse_most_frequent_root",
                    "parse_chunk_frequent", "parse_chunk_frequent_root"}

\* C17: parse_most_frequent and parse_chunk_frequent, in both copies, accept
\* each selector 0, 1, 2, 3 (a call whose selector is one of them and whose
\* other arguments are in range succeeds), and with selector 3 the selected
\* values are times, read at offset 5
FreqSelectorsAccepted ==
    (/\ SelectorFreqCall
     /\ call.indicator \in 0..3
     /\ train # <<>>
     /\ call.fn \in TopNFns => call.n \in 1..(Distinct(call.indicator) - 1)
     /\ call.fn \in ChunkFns =>
            /\ 0 <= call.start
            /\ call.start <= call.end
            /\ call.end < Distinct(call.indicator))
    => /\ outcome = "ok"
       /\ call.indicator = 3 =>
              \A j \in DOMAIN y : \E i \in DOMAIN train : y[j] = train[i].meta[6]

TableCall == pc = "returned" /\ call.fn = "to_dataframe"

\* every vector of the caller's collection has length d
Uniform(d) == \A i \in DOMAIN train : Len(train[i].vec) = d

\* C14: to_dataframe on r records whose vectors all have length d yields a
\* table of r rows and d + 4 columns; row i is made from record i, its
\* columns 0..d-1 hold the vector and its last four the cell line, the
\* compound, the dose and the time (metadata offsets 0, 1, 3, 5); for the
\* empty collection the table has no rows and the four metadata columns
ToDataframeShape ==
    TableCall =>
        IF train = <<>>
        THEN outcome = "ok" /\ ret.values = <<>> /\ Len(ret.columns) = 4
        ELSE LET d == Len(train[1].vec)
             IN  Uniform(d) =>
                     /\ outcome = "ok"
                     /\ Len(ret.values) = Len(train)
                     /\ Len(ret.columns) = d + 4
                     /\ \A j \in 1..d : ret.columns[j] = PyInt(j - 1)
                     /\ \A i \in DOMAIN train :
                            /\ Len(ret.values[i]) = d + 4
                            /\ \A j \in 1..d :
                                   /\ ret.values[i][j] # NaN
                                   /\ ret.values[i][j].n = train[i].vec[j]
                            /\ ret.values[i][d + 1] = train[i].meta[1]
                            /\ ret.values[i][d + 2] = train[i].meta[2]
                            /\ ret.values[i][d + 3] = train[i].meta[4]
                            /\ ret.values[i][d + 4] = train[i].meta[6]

\* two different records with vectors of length 2 give a 2 x 6 table
ToDataframeWitness ==
    /\ TableCall
    /\ Len(train) = 2
    /\ Uniform(2)
    /\ train[1] # train[2]
    /\ outcome = "ok"
    /\ Len(ret.columns) = 6
    /\ Len(ret.values) = 2

\* C15: to_dataframe fails and returns no table when the vectors of the
\* records have different lengths
ToDataframeRaggedFails ==
    (TableCall /\ \E i, j \in DOMAIN train : Len(train[i].vec) # Len(train[j].vec))
        => outcome # "ok"

(***************************************************************************)
(* Order of validation and output within one call.                         *)
(***************************************************************************)
\* the selectors a function lets pass its entry assertion (functions without
\* a selector are called with selector 0)
AcceptedSelectors(fn) ==
    CASE fn \in {"parse_list", "parse_list_root", "parse_most_frequent"} -> 0..3
      [] fn \in {"parse_list_v2", "parse_list_v2_root"} -> 0..7
      [] fn \in {"parse_most_frequent_root", "parse_chunk_frequent",
                 "parse_chunk_frequent_root"} -> 0..2
      [] OTHER -> {0}

\* an argument of the call is refused whatever the collection holds
EntryRejected ==
    \/ call.indicator \notin AcceptedSelectors(call.fn)
    \/ call.fn \in ChunkFns /\ call.start > call.end
    \/ call.fn \in {"parse_dose_range", "parse_dose_range_root"}
           /\ call.dose_min >= call.dose_max

\* n or end is out of range for the number of distinct values of the
\* selected field of the collection
RangeRejected ==
    \/ call.fn = "parse_most_frequent" /\ call.n > Distinct(call.indicator)
    \/ call.fn = "parse_most_frequent_root" /\ call.n >= Distinct(call.indicator)
    \/ call.fn = "cell_line_frequent_root" /\ call.n >= Distinct(0)
    \/ call.fn \in ChunkFns /\ call.end >= Distinct(call.indicator)

\* C18 as stated: a failing call has validated everything at entry, so it has
\* printed nothing and reported nothing (stated for the collections that are
\* not empty)
ValidationBeforeOutput ==
    (pc = "returned" /\ outcome # "ok" /\ train # <<>>)
        => printed = <<>> /\ report = <<>>

\* C18: the selector, the order of start and end and the dose bounds are
\* checked at call entry, before anything is printed; the type of the
\* collection is checked after the banner and "Data Loading.." are printed
\* (to_dataframe prints nothing); the range of n and of end is checked after
\* the collection was scanned and the number of distinct values was printed
\* (for n also the most-frequent report); every failing call returns no
\* collection and every other call succeeds
ValidationOrder ==
    pc = "returned" =>
        IF EntryRejected
        THEN outcome = "AssertionError" /\ printed = <<>> /\ report = <<>> /\ ret = <<>>
        ELSE IF caller.data # "list"
        THEN /\ outcome = "AssertionError"
             /\ ret = <<>>
             /\ report = <<>>
             /\ printed = IF call.fn = "to_dataframe" THEN <<>>
                          ELSE <<"banner", "loading">>
        ELSE IF RangeRejected
        THEN /\ outcome = "AssertionError"
             /\ ret = <<>>
             /\ \E i \in DOMAIN printed : printed[i] = "n_unique"
             /\ call.fn \notin ChunkFns =>
                    /\ \E i \in DOMAIN printed : printed[i] = "most_frequent"
                    /\ Len(report) = Distinct(FreqSelector)
        ELSE outcome = "ok"

\* parse_most_frequent refuses n only after it has printed the ranked list
ValidationOrderWitness ==
    /\ pc = "returned"
    /\ call.fn = "parse_most_frequent"
    /\ outcome = "AssertionError"
    /\ Len(report) = 2
    /\ Len(train) = 3

SuppliedCall == pc = "returned" /\ caller.data = "list"

\* the same call on the same collection with d for dataset_dir ends as the
\* call that was made: same outcome, same returned records
SameOutcomeWith(d) ==
    LET r == Apply([call EXCEPT !.dataset_dir = d], Supplied)
    IN  r.outcome = outcome /\ r.ret = ret

TestCall ==
    /\ pc = "returned"
    /\ call.fn \in {"test_cell_line_list", "test_cell_line_list_root"}

\* cells has no duplicates and each of its elements is the cell line of some
\* record of the collection
CellsAllPresent ==
    /\ \A i, j \in DOMAIN call.query : i # j => call.query[i] # call.query[j]
    /\ \A i \in DOMAIN call.query :
           \E h \in DOMAIN train : train[h].meta[1] = call.query[i]

\* C21: cell_line_list called as in the test, with a placeholder path, a
\* duplicate-free list cells whose elements all occur as cell lines of the
\* collection, and the collection passed as data=..., returns records whose
\* set of distinct cell lines has exactly len(cells) elements (stated for
\* the lists cells that are not empty, as the one of the test)
TestCellLineCount ==
    (TestCall /\ CellsAllPresent /\ call.query # <<>>) =>
        /\ outcome = "ok"
        /\ DistinctIn(ret, 0) = Len(call.query)

\* the call of the test against cell_line_list of src/utils.py, whose
\* signature it fits, returns records of exactly len(cells) cell lines
TestCellLineCountRoot ==
    (TestCall /\ call.fn = "test_cell_line_list_root" /\ CellsAllPresent) =>
        /\ outcome = "ok"
        /\ DistinctIn(ret, 0) = Len(call.query)

(***************************************************************************)
(* Equality of a field and a query element.                                *)
(***************************************************************************)
IsNumber(v) == v.t \in {"int", "float"}

\* field and query element are of the same type and equal
SameTypeEqual(f, q) == f.t = q.t /\ f.n = q.n /\ f.s = q.s

\* field and query element are equal numbers, whatever their types, or are
\* of the same type and equal
NumberOrSameTypeEqual(f, q) ==
    IF IsNumber(f) /\ IsNumber(q) THEN f.n = q.n ELSE SameTypeEqual(f, q)

\* C22 as stated: the exact-match filter keeps a record only when its field
\* and a query element are of the same type and equal, so a dose stored as a
\* float is matched by an equal float and not by an equal-valued integer
NoMatchAcrossTypes ==
    (ExactMatchCall /\ outcome = "ok") =>
        ret = Restrict(train,
                  {i \in DOMAIN train :
                      \E j \in DOMAIN call.query :
                          SameTypeEqual(FieldAt(i, call.indicator), call.query[j])})

\* C22 amended: a field matches a query element when both are numbers of
\* equal value, an int and a float alike (a dose stored as 2.0 is matched by
\* 2.0 and by 2), or when both are of the same type and equal; a number is
\* never matched by a string of its digits
NumbersMatchByValue ==
    (ExactMatchCall /\ outcome = "ok") =>
        /\ ret = Restrict(train,
                     {i \in DOMAIN train :
                         \E j \in DOMAIN call.query :
                             NumberOrSameTypeEqual(FieldAt(i, call.indicator),
                                                   call.query[j])})
        /\ (\A j \in DOMAIN call.query : call.query[j].t = "str") =>
               \A i \in DOMAIN ret : ~IsNumber(ret[i].meta[SchemaOffset(call.indicator) + 1])

\* the query [2, '3'] on the dose keeps the record of dose 2.0 and drops the
\* record of dose 3.0
NumbersMatchWitness ==
    /\ pc = "returned"
    /\ call.fn = "parse_list"
    /\ call.indicator = 2
    /\ call.query = <<PyInt(2), PyStr(<<"3">>)>>
    /\ Len(train) = 2
    /\ train[1].meta[4] = PyFloat(2)
    /\ train[2].meta[4] = PyFloat(3)
    /\ ret = <<train[1]>>

(***************************************************************************)
(* The drug annotation lookup.                                             *)
(***************************************************************************)
DrugCall ==
    /\ pc = "returned"
    /\ call.fn \in {"drug_pert_retrieval", "drug_pert_retrieval_root"}

\* the perturbation table has a row of the pert_type the caller passed
PertTypePresent ==
    \E i \in DOMAIN hub.pert_info.rows :
        hub.pert_info.rows[i].pert_type = call.pert_type

\* the names of the touchstone perturbations of the pert_type passed
SelectedNames ==
    {hub.pert_info.rows[i].pert_iname : i \in
        {h \in DOMAIN hub.pert_info.rows :
            /\ hub.pert_info.rows[h].pert_type = call.pert_type
            /\ hub.pert_info.rows[h].is_touchstone = 1}}

\* the call returned the pair (annotation rows of the selected names, in the
\* order of the annotation table; the names of exactly those rows)
ReturnsSelected ==
    /\ outcome = "ok"
    /\ ret.pert_supp_info =
           Restrict(hub.drug_info,
                    {i \in DOMAIN hub.drug_info :
                        hub.drug_info[i].pert_iname \in SelectedNames})
    /\ ret.pert_list = [i \in DOMAIN ret.pert_supp_info |->
                           ret.pert_supp_info[i].pert_iname]

\* C23: drug_pert_retrieval selects the touchstone perturbations of the
\* pert_type passed by the caller, for every pert_type present in the
\* perturbation table, and returns the pair (drug annotation rows whose
\* pert_iname is among the selected perturbations, list of the pert_iname of
\* exactly those rows); stated for the tables that have the is_touchstone
\* column
DrugPertOfType ==
    (DrugCall /\ PertTypePresent /\ hub.pert_info.has_touchstone)
        => ReturnsSelected

\* drug_pert_retrieval of src/src/drug_info.py does so
DrugPertOfTypeSrc ==
    (/\ DrugCall
     /\ call.fn = "drug_pert_retrieval"
     /\ PertTypePresent
     /\ hub.pert_info.has_touchstone)
        => ReturnsSelected

\* the records of seq whose tag string at metadata offset k is empty
EmptyTagged(seq, k) ==
    Restrict(seq, {i \in DOMAIN seq : seq[i].meta[k + 1].s = <<>>})

\* the query list contains the empty string
EmptyStringQueried ==
    \E j \in DOMAIN call.query : call.query[j].t = "str" /\ call.query[j].s = <<>>

\* C24: in the tag-set filter (parse_list_v2, selectors 5..7) a record whose
\* tag string is empty is split into the single tag "" and is retained
\* exactly when the query list contains the empty string
EmptyTagRetained ==
    TagCall =>
        LET k == SchemaOffset(call.indicator)
        IN  /\ outcome = "ok"
            /\ EmptyStringQueried => EmptyTagged(ret, k) = EmptyTagged(train, k)
            /\ ~EmptyStringQueried => EmptyTagged(ret, k) = <<>>

\* the query [""] keeps the record without tags and drops the two with tags
EmptyTagWitness ==
    /\ TagCall
    /\ pc = "returned"
    /\ call.indicator = 6
    /\ call.query = <<PyStr(<<>>)>>
    /\ Len(train) = 3
    /\ Len(EmptyTagged(train, 9)) = 1
    /\ ret = EmptyTagged(train, 9)

(***************************************************************************)
(* The filtering script.                                                   *)
(***************************************************************************)
ScriptCall == pc = "returned" /\ call.fn = "filtering"

\* the list the script binds to train before it filters: what --data gave,
\* or the collection pickled at --dataset_dir
ScriptInput ==
    IF call.flags.data.kind # "None" THEN call.flags.data.items
    ELSE IF call.flags.dataset_dir = SamplePkl THEN train
    ELSE IF call.flags.dataset_dir = LandmarkPkl THEN Stored
    ELSE <<>>

\* line satisfies the predicate of a flag: the flag is unset, or the field at
\* metadata offset k is one of its values
Satisfies(line, k, flag) ==
    \/ flag.kind = "None"
    \/ /\ "meta" \in DOMAIN line
       /\ \E j \in DOMAIN flag.items :
              NumberOrSameTypeEqual(line.meta[k + 1], flag.items[j])

SatisfiesAll(line) ==
    /\ Satisfies(line, 0, call.flags.cells)
    /\ Satisfies(line, 1, call.flags.compounds)
    /\ Satisfies(line, 3, call.flags.doses)
    /\ Satisfies(line, 5, call.flags.times)

\* the four filters of the script, by the name of their flag
ScriptFilter(st, name) ==
    CASE name = "cells" -> FilterBy(st, 0, call.flags.cells, "n_cells")
      [] name = "compounds" -> FilterBy(st, 1, call.flags.compounds, "n_compounds")
      [] name = "doses" -> FilterBy(st, 3, call.flags.doses, "n_doses")
      [] name = "times" -> FilterBy(st, 5, call.flags.times, "n_times")

FilterNames == {"cells", "compounds", "doses", "times"}

\* the orders in which the four filters can be applied
FilterOrders ==
    {o \in [1..4 -> FilterNames] : \A i, j \in 1..4 : i # j => o[i] # o[j]}

\* the list left when the filters are applied to the input in order o
AppliedInOrder(o) ==
    LET s0 == Running("ok", ScriptInput, <<>>)
        s1 == ScriptFilter(s0, o[1])
        s2 == ScriptFilter(s1, o[2])
        s3 == ScriptFilter(s2, o[3])
    IN  ScriptFilter(s3, o[4])

\* the output is the input restricted to the lines that satisfy every
\* supplied predicate, and every order of the filters leaves that list
OutputIsConjunction ==
    /\ outcome = "ok"
    /\ ret = Restrict(ScriptInput,
                 {i \in DOMAIN ScriptInput : SatisfiesAll(ScriptInput[i])})
    /\ \A o \in FilterOrders :
           AppliedInOrder(o).outcome = "ok" /\ AppliedInOrder(o).train = ret

\* the input file exists, or --data is given
InputAvailable ==
    call.flags.data.kind # "None" \/ call.flags.dataset_dir \in {SamplePkl, LandmarkPkl}

\* C25: the filtering script applies the supplied cells, compounds, doses and
\* times predicates one after another, so that its output is exactly the
\* records, in original order, that satisfy every supplied predicate; an
\* unset predicate imposes no constraint, and the result does not depend on
\* the order in which the four filters are applied (stated for the runs
\* whose input is not empty)
ScriptOutputIsConjunction ==
    (ScriptCall /\ InputAvailable /\ ScriptInput # <<>>) => OutputIsConjunction

\* so it is for every run that reads its collection from --dataset_dir
ScriptOutputFromFile ==
    (ScriptCall /\ InputAvailable /\ call.flags.data.kind = "None")
        => OutputIsConjunction

(***************************************************************************)
(* The top-N selection and the value of n.                                 *)
(***************************************************************************)
Warned == \E i \in DOMAIN printed : printed[i] = "UserWarning"

\* C26: cell_line_frequent of src/src/utils.py never fails on the value of
\* n: every call succeeds, for n greater than or equal to the number of
\* distinct cell lines it returns every record of the collection in the
\* original order, and it warns exactly when n is strictly greater
CellLineFrequentAnyN ==
    (pc = "returned" /\ call.fn = "cell_line_frequent") =>
        /\ outcome = "ok"
        /\ call.n >= Distinct(0) => ret = train
        /\ Warned <=> call.n > Distinct(0)

\* n equal to the number of distinct cell lines: everything is returned and
\* nothing is warned about
CellLineFrequentWitness ==
    /\ pc = "returned"
    /\ call.fn = "cell_line_frequent"
    /\ call.n = Distinct(0)
    /\ Distinct(0) = 2
    /\ Len(train) = 3
    /\ outcome = "ok"
    /\ ret = train
    /\ ~Warned

(***************************************************************************)
(* Agreement of the filter variants.                                       *)
(***************************************************************************)
\* variant fn, called with the arguments of the call that was made (and a
\* placeholder path where it takes dataset_dir) on the same collection,
\* ends as that call did: same outcome, same returned collection
Agrees(fn) ==
    LET r == Apply([call EXCEPT !.fn = fn, !.dataset_dir = Dummy], Supplied)
    IN  r.outcome = outcome /\ r.ret = ret

\* the call has returned and its collection was passed as a list
InMemoryCall(fn) == pc = "returned" /\ caller.data = "list" /\ call.fn = fn

\* C27: the filter variants agree on every in-memory collection and query
\* list: cell_line_list(C, cells) equals parse_list(C, 0, cells);
\* parse_list_v2 with selector 0..3 equals parse_list with the same selector;
\* parse_list and parse_dose_range of src/utils.py return the same collection
\* as their counterparts in src/src/utils.py
VariantsAgree ==
    /\ (InMemoryCall("parse_list") /\ call.indicator \in 0..3) =>
           /\ outcome = "ok"
           /\ Agrees("parse_list_v2")
           /\ Agrees("parse_list_v2_root")
           /\ Agrees("parse_list_root")
           /\ call.indicator = 0 =>
                  Agrees("cell_line_list") /\ Agrees("cell_line_list_root")
    /\ InMemoryCall("parse_dose_range") => Agrees("parse_dose_range_root")

\* a cell-line query that keeps some records and drops others, the same
\* ones in every variant
VariantsAgreeWitness ==
    /\ InMemoryCall("parse_list")
    /\ call.indicator = 0
    /\ Len(call.query) = 2
    /\ Len(train) = 3
    /\ Len(ret) = 2
    /\ Agrees("cell_line_list")
    /\ Agrees("parse_list_v2")

\* the value of record i of the collection is carried by a returned record
InResult(i) ==
    \E j \in DOMAIN ret :
        PyEq(ret[j].meta[SchemaOffset(FreqSelector) + 1], FieldAt(i, FreqSelector))

\* C28: in the result of an accepted top-N selection every selected value
\* occurs in the collection at least as often as every value that was not
\* selected, and every record of the collection carrying a selected value is
\* in the result, in the original order
TopNDominates ==
    (TopNCall /\ outcome = "ok") =>
        /\ \A i, j \in DOMAIN train :
               (InResult(i) /\ ~InResult(j)) => Occ(i, FreqSelector) >= Occ(j, FreqSelector)
        /\ ret = Restrict(train, {i \in DOMAIN train : InResult(i)})

\* the value met first is the rarer one: the top-1 selection keeps the two
\* records of the other value and drops the first record
TopNDominatesWitness ==
    /\ TopNCall
    /\ outcome = "ok"
    /\ call.n = 1
    /\ Len(train) = 3
    /\ Occ(1, FreqSelector) = 1
    /\ Occ(2, FreqSelector) = 2
    /\ ret = <<train[2], train[3]>>

\* sub is seq restricted to some of its positions
IsSubsequence(sub, seq) == \E I \in SUBSET (DOMAIN seq) : sub = Restrict(seq, I)

ParseMostFrequentCall ==
    TopNCall /\ call.fn \in {"parse_most_frequent", "parse_most_frequent_root"}

\* C29: top-N selection is monotone in n: for all accepted n1 <= n2 the
\* result of parse_most_frequent with n1 is an order-preserving subsequence
\* of its result with n2 (n2 is the n of the call that was made)
TopNMonotone ==
    (ParseMostFrequentCall /\ outcome = "ok") =>
        \A n1 \in Counts :
            n1 <= call.n =>
                LET r1 == Apply([call EXCEPT !.n = n1], Supplied)
                IN  r1.outcome = "ok" /\ IsSubsequence(r1.ret, ret)

\* n = 2 of three values: the top-1 result is a proper, non-empty part of
\* the result
TopNMonotoneWitness ==
    /\ ParseMostFrequentCall
    /\ outcome = "ok"
    /\ call.n = 2
    /\ Distinct(FreqSelector) = 3
    /\ Len(train) = 4
    /\ Len(Apply([call EXCEPT !.n = 1], Supplied).ret) = 2
    /\ Len(ret) = 3

\* C30: parse_most_frequent and cell_line_frequent called with an integer
\* n <= 0 on a collection that is not empty do not fail: no value is
\* selected and the returned collection is empty (for every selector of the
\* 4-field schema)
TopNNonPositive ==
    (TopNCall /\ call.n <= 0 /\ train # <<>>) =>
        /\ outcome = "ok"
        /\ y = <<>>
        /\ ret = <<>>
        /\ ~Warned

\* so it is for every selector the called function accepts
TopNNonPositiveAccepted ==
    (/\ TopNCall
     /\ call.indicator \in AcceptedSelectors(call.fn)
     /\ call.n <= 0
     /\ train # <<>>) =>
        /\ outcome = "ok"
        /\ y = <<>>
        /\ ret = <<>>
        /\ ~Warned

====
